---- MODULE Spec2Model ----
(***************************************************************************)
(* Jottery: the relay's sync handlers (server/src/api/sync.rs) and the     *)
(* client's reconciliation cycle (tui/src/ui/app.rs, perform_sync).        *)
(*                                                                         *)
(* The relay's handlers are async functions whose SQL statements are       *)
(* separate awaits on a connection pool: every statement is one step of    *)
(* the handler, and steps of different requests interleave.                *)
(***************************************************************************)
EXTENDS Integers, Sequences, FiniteSets, TLC

\* ---------------------------------------------------------------- bounds
MaxClock == 1
MaxBatch == 2
MaxWork == 3
MaxSyncClock == 2
MaxOps == 3
MaxCycles == 4
QuietCycles == 3
MaxNotes == 1
MaxForeign == 1

NoteIds == {"n1", "n2"}
Clients == {"X", "Y"}
RawCallers == {"r1", "r2"}
Zones == {"Z", "+00:00"}

Instants == 0..MaxClock

\* ------------------------------------------------------- timestamp text
\* chrono prints an instant with SecondsFormat::AutoSi: the fraction is
\* left out when it is zero.  An instant t counts half seconds; the text is
\* the sequence <<seconds field, character codes...>>.  The seconds field
\* is fixed-width, so it orders as the number does.
CharCode(ch) ==
    CASE ch = "+00:00" -> 43
      [] ch = "." -> 46
      [] ch = "5" -> 53
      [] ch = "Z" -> 90

FormatInstant(t, zone) ==
    IF t % 2 = 0
    THEN << t \div 2, CharCode(zone) >>
    ELSE << t \div 2, CharCode("."), CharCode("5"), CharCode(zone) >>

\* DateTime::to_rfc3339(): "+00:00" suffix.
ToRfc3339(t) == FormatInstant(t, "+00:00")

\* serde's Serialize for DateTime<Utc>: "Z" suffix.
SerdeTime(t) == FormatInstant(t, "Z")

\* str::parse::<DateTime<Utc>>() and serde's Deserialize.
ParseTime(text) ==
    2 * text[1] + (IF text[2] = CharCode(".") THEN 1 ELSE 0)

MinLen(a, b) == IF Len(a) < Len(b) THEN Len(a) ELSE Len(b)

\* Byte-wise order of two texts: Rust's String `>` and SQLite's BINARY
\* collation on TEXT.
TextLess(a, b) ==
    \/ \E i \in 1..MinLen(a, b) :
          /\ a[i] < b[i]
          /\ \A j \in 1..(i - 1) : a[j] = b[j]
    \/ /\ Len(a) < Len(b)
       /\ \A j \in 1..Len(a) : a[j] = b[j]

TextGreater(a, b) == TextLess(b, a)

Texts == { FormatInstant(t, z) : t \in Instants, z \in Zones }

\* ------------------------------------------------------------ relay data
NoRow == [none |-> TRUE]
NoNote == [none |-> TRUE]
NoCursor == << >>
NoTime == << >>

\* SyncNote as a raw HTTP caller sends it.
RawNote(id, t, c) ==
    [ id |-> id, created_at |-> SerdeTime(0), modified_at |-> SerdeTime(t),
      content |-> c, pinned |-> FALSE, deleted |-> FALSE,
      deleted_at |-> NoTime, version |-> 1, word_wrap |-> TRUE,
      syntax_language |-> "plain" ]

\* The two callers write different bodies, so that a write is told from
\* the other caller's.
BodyOf(p) == IF p = "r1" THEN "c1" ELSE "c2"

RawNotes(p) == { RawNote(id, t, BodyOf(p)) : id \in NoteIds, t \in Instants }

\* ------------------------------------------------------- authentication
\* API keys are texts; a text is a sequence, so that a key and a digest are
\* values of one kind.  Sha256 followed by hex formatting (api/mod.rs 37-39,
\* api/auth.rs 26-28) is one-way and collision-free: the digest of a key is
\* a text no key equals.
Sha256Hex(key) == << "sha256" >> \o key

\* The key register() issued to each client (api/auth.rs 23).
IssuedKey(c) ==
    CASE c = "X" -> << "kx" >>
      [] c = "Y" -> << "ky" >>
      [] c = "W" -> << "kw" >>

\* Rows of the clients table: X and Y as registered, W a registered client
\* whose row an operator has set inactive.
ClientRows == Clients \cup {"W"}

\* api/auth.rs 34-45: the row register() inserts.
RegisteredRow(c, now) ==
    [ api_key |-> Sha256Hex(IssuedKey(c)), is_active |-> 1,
      created_at |-> now, last_seen_at |-> now ]

NoHeader == [none |-> TRUE]
Bearer(key) == [ scheme |-> "Bearer ", key |-> key ]
Basic(key) == [ scheme |-> "Basic ", key |-> key ]
NoClient == "none"

\* A request in the relay: the position of its handler, the Authorization
\* header it came with, the client the middleware resolved, the handler's
\* locals and the fields of its response.
IdleReq ==
    [ pc |-> "idle", auth |-> NoHeader, status |-> 0, client |-> NoClient,
      lazy |-> 0, notes |-> << >>,
      cur |-> NoNote, existing |-> NoRow, now |-> NoCursor,
      accepted |-> << >>, rejected |-> << >>,
      cursor |-> NoCursor, hasCursor |-> FALSE, out |-> << >>,
      deletions |-> << >>, synced_at |-> NoCursor,
      note_count |-> 0, server_last_modified |-> NoCursor ]

Devices == {"A", "B"}
Callers == RawCallers \cup Devices

VARIABLES
    clock,        \* the wall clock, in half seconds
    clients,      \* relay table clients, keyed by id
    rows,         \* relay table notes, keyed by its primary key id
    req,          \* per caller: the handler serving its request
    store,        \* per device: local table notes, keyed by id
    loaded,       \* per device: ids of App.notes (rows loaded in memory)
    meta,         \* per device: persisted sync_metadata row
    cyc,          \* per device: position and locals of perform_sync
    verAssigned,  \* history: last server_version assigned per id
    accCount,     \* history: accepted writes per id over the row's lifetime
    lastCursor,   \* history: the cursor a caller was last handed
    cursorClean,  \* history: no other request wrote since it was handed
    quiet,        \* history: devices whose cycles succeeded since the last edit
    mutations,    \* history: per device and id, local mutations since create
    outcome,      \* history: per device, how its last cycle went
    steady,       \* history: per device, store and table at its last cycle's end
    call,         \* the last call of the note repository and what it returned
    instant,      \* the monotonic clock (Instant), in seconds
    km,           \* KeyManagerInner: master_key, last_activity, auto_lock_duration
    kret,         \* the last call of the key manager and what it returned
    lapsed,       \* history: the timeout elapsed since the key was last set
    settings,     \* the client's table settings: no row, or the row with id 1
    scall,        \* the last call of the settings repository and what it returned
    attMeta,      \* relay table attachments_meta, keyed by id
    attData,      \* relay table attachments_data: the ids that have a row
    areq,         \* per raw caller: its push that carries attachments
    dcall,        \* the last DELETE request and what the relay held before it
    app,          \* the fields of App (ui/app.rs 70-117)
    disk,         \* the store file: its password, encryption and sync metadata, notes
    debugLog,     \* the lines written to the debug log file
    sess,         \* history: the last key handler, its result, the last key event
    cs,           \* the last call of CryptoService: arguments, result, the call before
    served,       \* work the raw callers have asked for: notes pushed, pulls, deletes
    ops,          \* local operations the users have made
    cycles        \* reconciliation cycles the users have started

relayVars == << rows, req >>
authVars == << clients >>
editHist == << mutations >>
cycleHist == << outcome, steady >>
keyVars == << instant, km, kret, lapsed >>
setVars == << settings, scall >>
attVars == << attMeta, attData, areq, dcall >>
sessVars == << app, disk, debugLog, sess >>
cryptoVars == << cs >>
moreVars == << keyVars, setVars, attVars, sessVars, cryptoVars >>
laterVars == << call, moreVars >>
devVars == << store, loaded, meta, cyc, quiet, ops, cycles >>
verHist == << verAssigned, accCount >>
curHist == << lastCursor, cursorClean >>
vars == << clock, clients, rows, req, store, loaded, meta, cyc,
           verAssigned, accCount, lastCursor, cursorClean, quiet,
           mutations, outcome, steady, call, instant, km, kret, lapsed,
           settings, scall, attMeta, attData, areq, dcall,
           app, disk, debugLog, sess, cs,
           served, ops, cycles >>

\* perform_sync's locals: `last_sync`, the in-memory metadata.last_push_at,
\* and (kept for the record) what its push response listed as rejected and
\* whether the cycle ran while no other device was in one.
IdleCycle ==
    [ pc |-> "idle", last_sync |-> NoTime, last_push_at |-> NoTime,
      rejected |-> {}, alone |-> TRUE ]

\* What is remembered of a device's last cycle: how it ended, whether its
\* push was answered, and the syncedAt of that answer.
NoOutcome == [ last |-> "none", pushed |-> FALSE, push_now |-> NoCursor ]

\* What the device's store and the relay's table held when the device's
\* last cycle ended, as long as no local edit and no write of another
\* caller came after it.
NoSnapshot == [none |-> TRUE]

\* No repository call made yet.
NoCall == [ op |-> "none", id |-> "none", existed |-> FALSE, result |-> "none" ]

\* key_manager.rs 53-61: KeyManager::new. An Option is the empty set or
\* a singleton.
NewKeyManager(now) ==
    [ master_key |-> {}, last_activity |-> now, auto_lock_duration |-> {} ]

NoKeyCall == [ op |-> "none", result |-> {} ]

NoSettingsCall == [ op |-> "none", result |-> "none" ]

\* models/settings.rs 69-78
DefaultSettings ==
    [ theme |-> "auto", sort_order |-> "recent", auto_lock_timeout |-> 15,
      sync_enabled |-> FALSE, sync_endpoint |-> {} ]

\* ui/app.rs 121-151: App::new; the database is new when its file is absent.
NewApp(is_new, debug) ==
    [ state |-> "Locked", password_input |-> "", password_confirm |-> "",
      is_new_database |-> is_new, error |-> FALSE, db |-> {}, key |-> {},
      settings |-> DefaultSettings, debug_log |-> debug ]

\* No store file yet.
NoDisk ==
    [ exists |-> FALSE, password |-> "", salt |-> {}, iterations |-> 0,
      api_key |-> {}, note_keys |-> {} ]

NoSession == [ op |-> "none", result |-> "none", unlocked |-> FALSE, last_key |-> 0 ]

AttIds == {"a1", "a2"}

IdleAttReq ==
    [ pc |-> "idle", client |-> NoClient, id |-> "none", now |-> NoCursor,
      refs |-> {}, blobs |-> {}, status |-> 0 ]

NoCryptoCall ==
    [ op |-> "none", input |-> << >>, key |-> << >>, sealed_with |-> << >>,
      result |-> [ ok |-> FALSE, value |-> "none" ], before |-> {} ]

NoDelete ==
    [ id |-> "none", client |-> NoClient, conn |-> "none", owned |-> FALSE,
      meta |-> {}, data |-> {} ]

Init ==
    /\ clock = 0
    /\ clients = [ c \in ClientRows |->
                      [ RegisteredRow(c, ToRfc3339(0)) EXCEPT
                          !.is_active = IF c = "W" THEN 0 ELSE 1 ] ]
    /\ rows = [id \in NoteIds |-> NoRow]
    /\ req = [p \in Callers |-> IdleReq]
    /\ store = [d \in Devices |-> [id \in NoteIds |-> NoNote]]
    /\ loaded = [d \in Devices |-> {}]
    /\ meta = [d \in Devices |->
                 [ last_sync_at |-> NoTime, last_push_at |-> NoTime,
                   last_pull_at |-> NoTime ]]
    /\ cyc = [d \in Devices |-> IdleCycle]
    /\ verAssigned = [id \in NoteIds |-> 0]
    /\ accCount = [id \in NoteIds |-> 0]
    /\ lastCursor = [p \in Callers |-> NoCursor]
    /\ cursorClean = [p \in Callers |-> FALSE]
    /\ quiet = << >>
    /\ mutations = [d \in Devices |-> [id \in NoteIds |-> 0]]
    /\ outcome = [d \in Devices |-> NoOutcome]
    /\ steady = [d \in Devices |-> NoSnapshot]
    /\ call = NoCall
    /\ instant = 0
    /\ km = NewKeyManager(0)
    /\ kret = NoKeyCall
    /\ lapsed = FALSE
    /\ settings = {}
    /\ scall = NoSettingsCall
    /\ attMeta = [a \in AttIds |-> NoRow]
    /\ attData = {}
    /\ areq = [p \in RawCallers |-> IdleAttReq]
    /\ dcall = NoDelete
    /\ app = NewApp(TRUE, FALSE)
    /\ disk = NoDisk
    /\ debugLog = {}
    /\ sess = NoSession
    /\ cs = NoCryptoCall
    /\ served = 0
    /\ ops = 0
    /\ cycles = 0

\* Utc::now() reads the clock; time passes between any two steps.
Tick(limit) ==
    /\ clock < limit
    /\ clock' = clock + 1
    /\ UNCHANGED << relayVars, devVars, served >>

\* ------------------------------------------------------------ push
\* sync.rs 97-103: SELECT modified_at, server_version FROM notes
\*                 WHERE id = ? AND client_id = ?
SelectExisting(table, id, client) ==
    IF table[id] # NoRow /\ table[id].client_id = client
    THEN [ modified_at |-> table[id].modified_at,
           server_version |-> table[id].server_version ]
    ELSE NoRow

\* The rule with >= where the handler has >: a push equal to the stored
\* modified_at would be accepted.
ShouldAcceptOrEqual(note, existing) ==
    IF existing = NoRow
    THEN TRUE
    ELSE ~TextLess(note.modified_at, existing.modified_at)

\* sync.rs 105-111
ShouldAccept(note, existing) ==
    IF existing = NoRow
    THEN TRUE
    ELSE TextGreater(note.modified_at, existing.modified_at)

\* sync.rs 124-127
NewServerVersion(existing) ==
    IF existing = NoRow THEN 1 ELSE existing.server_version + 1

\* The upsert with created_at among the columns the update sets: a later
\* push would move the creation time.
UpsertReplacing(table, client, note, now, sv) ==
    [ table EXCEPT ![note.id] =
        [ client_id |-> IF @ = NoRow THEN client ELSE @.client_id,
          created_at |-> note.created_at,
          modified_at |-> note.modified_at, server_modified_at |-> now,
          content |-> note.content, pinned |-> note.pinned,
          deleted |-> note.deleted, deleted_at |-> note.deleted_at,
          version |-> note.version, server_version |-> sv,
          word_wrap |-> note.word_wrap,
          syntax_language |-> note.syntax_language ] ]

\* sync.rs 130-167: INSERT ... ON CONFLICT(id) DO UPDATE SET ...
\* The conflict target is the primary key id alone; the update leaves
\* client_id and created_at as they are.
Upsert(table, client, note, now, sv) ==
    IF table[note.id] = NoRow
    THEN [ table EXCEPT ![note.id] =
             [ client_id |-> client, created_at |-> note.created_at,
               modified_at |-> note.modified_at, server_modified_at |-> now,
               content |-> note.content, pinned |-> note.pinned,
               deleted |-> note.deleted, deleted_at |-> note.deleted_at,
               version |-> note.version, server_version |-> sv,
               word_wrap |-> note.word_wrap,
               syntax_language |-> note.syntax_language ] ]
    ELSE [ table EXCEPT ![note.id] =
             [ @ EXCEPT !.modified_at = note.modified_at,
                        !.server_modified_at = now,
                        !.content = note.content, !.pinned = note.pinned,
                        !.deleted = note.deleted,
                        !.deleted_at = note.deleted_at,
                        !.version = note.version,
                        !.server_version = sv,
                        !.word_wrap = note.word_wrap,
                        !.syntax_language = note.syntax_language ] ]

\* sync.rs 169-173
AcceptedEntry(note, sv, now) ==
    [ id |-> note.id, server_version |-> sv, synced_at |-> now ]

\* sync.rs 201-205
RejectedEntry(note, existing) ==
    [ id |-> note.id, reason |-> "Server version is newer",
      server_modified_at |-> existing.modified_at ]

\* sync.rs 76-93: the handler starts and stamps `now`.
PushBegin(p, c, k, notes) ==
    [ IdleReq EXCEPT !.pc = "push_select", !.client = c, !.lazy = k,
                     !.notes = notes, !.now = ToRfc3339(clock) ]

\* A raw HTTP caller posts a push of k notes as client c.  The notes of a
\* raw request are drawn one by one as the handler reaches them (the
\* handler never looks ahead in its request).
RawPush(p, c, k) ==
    /\ req[p].pc = "idle"
    /\ served + k <= MaxWork
    /\ served' = served + k
    /\ req' = [req EXCEPT ![p] = PushBegin(p, c, k, << >>)]
    /\ UNCHANGED << clock, rows, devVars >>

\* sync.rs 95-103: the next note of the request and the existence query.
PushSelectNote(p, note) ==
    /\ req' = [req EXCEPT ![p].pc = "push_write",
                          ![p].cur = note,
                          ![p].existing =
                              SelectExisting(rows, note.id, req[p].client)]
    /\ UNCHANGED << clock, rows, devVars, served >>

PushSelect(p) ==
    /\ req[p].pc = "push_select"
    /\ \/ /\ req[p].lazy > 0
          /\ \E note \in RawNotes(p) : PushSelectNote(p, note)
       \/ /\ req[p].lazy = 0
          /\ req[p].notes # << >>
          /\ PushSelectNote(p, Head(req[p].notes))

\* What is left of the request after the current note.
AfterNote(r) ==
    IF r.lazy > 0
    THEN [ r EXCEPT !.lazy = r.lazy - 1, !.cur = NoNote, !.existing = NoRow,
                    !.pc = IF r.lazy = 1 THEN "push_done" ELSE "push_select" ]
    ELSE [ r EXCEPT !.notes = Tail(r.notes), !.cur = NoNote, !.existing = NoRow,
                    !.pc = IF Len(r.notes) = 1 THEN "push_done" ELSE "push_select" ]

\* sync.rs 105-209: the decision on the row read earlier, then the upsert
\* (its own statement) or the rejection.
PushWrite(p) ==
    /\ req[p].pc = "push_write"
    /\ LET r == req[p]
           note == r.cur
       IN IF ShouldAccept(note, r.existing)
          THEN LET sv == NewServerVersion(r.existing)
               IN /\ rows' = Upsert(rows, r.client, note, r.now, sv)
                  /\ req' = [req EXCEPT ![p] =
                               [ AfterNote(r) EXCEPT !.accepted =
                                   Append(r.accepted, AcceptedEntry(note, sv, r.now)) ]]
          ELSE /\ req' = [req EXCEPT ![p] =
                            [ AfterNote(r) EXCEPT !.rejected =
                                Append(r.rejected, RejectedEntry(note, r.existing)) ]]
               /\ UNCHANGED rows
    /\ UNCHANGED << clock, devVars, served >>

\* The raw caller reads the push response (sync.rs 235-239).
RawPushDone(p) ==
    /\ req[p].pc = "push_done"
    /\ req' = [req EXCEPT ![p] = IdleReq]
    /\ UNCHANGED << clock, rows, devVars, served >>

\* ------------------------------------------------------------ pull
\* The WHERE clause with >= where the query has >: a row stamped exactly at
\* the cursor would be returned again.
PullMatchesOrEqual(row, client, hasCursor, cursor) ==
    /\ row # NoRow
    /\ row.client_id = client
    /\ (hasCursor => ~TextLess(row.server_modified_at, cursor))

\* The WHERE clause without its cursor condition: every pull is a full pull.
PullMatchesAnyTime(row, client, hasCursor, cursor) ==
    /\ row # NoRow
    /\ row.client_id = client

\* sync.rs 257-290: the WHERE clause of the notes query.
PullMatches(row, client, hasCursor, cursor) ==
    /\ row # NoRow
    /\ row.client_id = client
    /\ (hasCursor => TextGreater(row.server_modified_at, cursor))

\* sync.rs 259, 286: ORDER BY server_modified_at (rows with equal keys come
\* in any order).
OrderedBy(table, order) ==
    \A i, j \in DOMAIN order :
        i < j => ~TextGreater(table[order[i]].server_modified_at,
                              table[order[j]].server_modified_at)

Enumerations(S) ==
    { s \in [1..Cardinality(S) -> S] :
        \A i, j \in 1..Cardinality(S) : i # j => s[i] # s[j] }

\* sync.rs 343-356
ToSyncNote(id, row) ==
    [ id |-> id, created_at |-> row.created_at, modified_at |-> row.modified_at,
      content |-> row.content, pinned |-> row.pinned, deleted |-> row.deleted,
      deleted_at |-> row.deleted_at, version |-> row.version,
      word_wrap |-> row.word_wrap, syntax_language |-> row.syntax_language ]

\* sync.rs 242-253: the handler starts.
PullBegin(c, hasCursor, cursor) ==
    [ IdleReq EXCEPT !.pc = "pull_select", !.client = c,
                     !.hasCursor = hasCursor, !.cursor = cursor ]

RawPull(p, c, hasCursor, cursor) ==
    /\ req[p].pc = "idle"
    /\ served < MaxWork
    /\ served' = served + 1
    /\ req' = [req EXCEPT ![p] = PullBegin(c, hasCursor, cursor)]
    /\ UNCHANGED << clock, rows, devVars >>

\* sync.rs 257-310: the notes query.
PullSelect(p) ==
    /\ req[p].pc = "pull_select"
    /\ LET r == req[p]
           ids == { id \in NoteIds :
                      PullMatches(rows[id], r.client, r.hasCursor, r.cursor) }
       IN \E order \in Enumerations(ids) :
             /\ OrderedBy(rows, order)
             /\ req' = [req EXCEPT ![p].pc = "pull_finish",
                                   ![p].out = [ i \in 1..Len(order) |->
                                                  ToSyncNote(order[i], rows[order[i]]) ]]
    /\ UNCHANGED << clock, rows, devVars, served >>

\* sync.rs 380-392: deletions stay empty, synced_at is stamped last.
PullFinish(p) ==
    /\ req[p].pc = "pull_finish"
    /\ req' = [req EXCEPT ![p].pc = "pull_done",
                          ![p].deletions = << >>,
                          ![p].synced_at = ToRfc3339(clock)]
    /\ UNCHANGED << clock, rows, devVars, served >>

RawPullDone(p) ==
    /\ req[p].pc = "pull_done"
    /\ req' = [req EXCEPT ![p] = IdleReq]
    /\ UNCHANGED << clock, rows, devVars, served >>

\* ------------------------------------------------------------ delete
\* sync.rs 402-408: DELETE FROM notes WHERE id = ? AND client_id = ?
DeleteRow(table, id, client) ==
    IF table[id] # NoRow /\ table[id].client_id = client
    THEN [table EXCEPT ![id] = NoRow]
    ELSE table

\* DELETE /api/v1/sync/notes/:id, one statement.
RawDelete(p, c, id) ==
    /\ req[p].pc = "idle"
    /\ served < MaxWork
    /\ served' = served + 1
    /\ rows' = DeleteRow(rows, id, c)
    /\ UNCHANGED << clock, req, devVars >>

\* ------------------------------------------------------------ history
\* The step is an accepted write of id by p's handler.
AcceptedWrite(p, id) ==
    /\ req[p].pc = "push_write"
    /\ req[p].cur.id = id
    /\ Len(req'[p].accepted) > Len(req[p].accepted)

LastAccepted(r) == r.accepted[Len(r.accepted)]

\* Versions assigned and accepted writes counted, per id.  A DELETE that
\* removes the row starts the count of its next lifetime.
TrackVersions ==
    /\ verAssigned' =
          [ id \in NoteIds |->
              IF \E p \in Callers : AcceptedWrite(p, id)
              THEN LET p == CHOOSE q \in Callers : AcceptedWrite(q, id)
                   IN LastAccepted(req'[p]).server_version
              ELSE verAssigned[id] ]
    /\ accCount' =
          [ id \in NoteIds |->
              IF \E p \in Callers : AcceptedWrite(p, id)
              THEN accCount[id] + 1
              ELSE IF rows[id] # NoRow /\ rows'[id] = NoRow
                   THEN 0
                   ELSE accCount[id] ]

\* The cursor a caller holds: the syncedAt of its accepted push, or the
\* synced_at of its pull; clean until another request writes a row.
TrackCursors ==
    /\ lastCursor' =
          [ p \in Callers |->
              IF req[p].pc = "idle" /\ req'[p].pc = "push_select"
              THEN req'[p].now
              ELSE IF req[p].pc = "push_done" /\ req[p].accepted = << >>
                        /\ req'[p].pc # "push_done"
              THEN NoCursor
              ELSE IF req[p].pc = "pull_finish" /\ req'[p].pc = "pull_done"
              THEN req'[p].synced_at
              ELSE lastCursor[p] ]
    /\ cursorClean' =
          [ p \in Callers |->
              IF req[p].pc = "idle" /\ req'[p].pc = "push_select"
              THEN TRUE
              ELSE IF req[p].pc = "pull_finish" /\ req'[p].pc = "pull_done"
              THEN TRUE
              ELSE IF \E q \in Callers \ {p}, id \in NoteIds : AcceptedWrite(q, id)
              THEN FALSE
              ELSE cursorClean[p] ]

\* ------------------------------------------------------------ relay spec
\* The relay under raw HTTP callers; versions are tracked.
RelayNext ==
    \/ Tick(MaxClock) /\ UNCHANGED << laterVars, verHist, curHist, authVars, editHist, cycleHist >>
    \/ \E p \in RawCallers, c \in Clients, k \in 1..MaxBatch :
          RawPush(p, c, k) /\ TrackVersions /\ UNCHANGED << laterVars, curHist, authVars, editHist, cycleHist >>
    \/ \E p \in RawCallers :
          PushSelect(p) /\ TrackVersions /\ UNCHANGED << laterVars, curHist, authVars, editHist, cycleHist >>
    \/ \E p \in RawCallers :
          PushWrite(p) /\ TrackVersions /\ UNCHANGED << laterVars, curHist, authVars, editHist, cycleHist >>
    \/ \E p \in RawCallers :
          RawPushDone(p) /\ TrackVersions /\ UNCHANGED << laterVars, curHist, authVars, editHist, cycleHist >>
    \/ \E p \in RawCallers, c \in Clients, id \in NoteIds :
          RawDelete(p, c, id) /\ TrackVersions /\ UNCHANGED << laterVars, curHist, authVars, editHist, cycleHist >>

SpecRelay == Init /\ [][RelayNext]_vars

\* The relay under raw HTTP callers that push and pull; cursors are tracked.
PullNext ==
    \/ Tick(MaxClock) /\ UNCHANGED << laterVars, verHist, curHist, authVars, editHist, cycleHist >>
    \/ \E p \in RawCallers, c \in Clients, k \in 1..MaxBatch :
          RawPush(p, c, k) /\ TrackCursors /\ UNCHANGED << laterVars, verHist, authVars, editHist, cycleHist >>
    \/ \E p \in RawCallers :
          PushSelect(p) /\ TrackCursors /\ UNCHANGED << laterVars, verHist, authVars, editHist, cycleHist >>
    \/ \E p \in RawCallers :
          PushWrite(p) /\ TrackCursors /\ UNCHANGED << laterVars, verHist, authVars, editHist, cycleHist >>
    \/ \E p \in RawCallers :
          RawPushDone(p) /\ TrackCursors /\ UNCHANGED << laterVars, verHist, authVars, editHist, cycleHist >>
    \/ \E p \in RawCallers, c \in Clients, cursor \in Texts :
          RawPull(p, c, TRUE, cursor) /\ TrackCursors /\ UNCHANGED << laterVars, verHist, authVars, editHist, cycleHist >>
    \/ \E p \in RawCallers, c \in Clients :
          RawPull(p, c, FALSE, NoCursor) /\ TrackCursors /\ UNCHANGED << laterVars, verHist, authVars, editHist, cycleHist >>
    \/ \E p \in RawCallers :
          PullSelect(p) /\ TrackCursors /\ UNCHANGED << laterVars, verHist, authVars, editHist, cycleHist >>
    \/ \E p \in RawCallers :
          PullFinish(p) /\ TrackCursors /\ UNCHANGED << laterVars, verHist, authVars, editHist, cycleHist >>
    \/ \E p \in RawCallers :
          RawPullDone(p) /\ TrackCursors /\ UNCHANGED << laterVars, verHist, authVars, editHist, cycleHist >>

SpecPull == Init /\ [][PullNext]_vars

\* ------------------------------------------------------------ middleware
\* The key each raw caller was issued at registration.
HeldKey(p) == IF p = "r1" THEN IssuedKey("X") ELSE IssuedKey("Y")

\* What a caller can put in the Authorization header: nothing, its key
\* under another scheme, its key, the key of the inactive client, a key
\* nobody was issued, and the stored digest of its own key.
Headers(p) ==
    { NoHeader, Basic(HeldKey(p)), Bearer(HeldKey(p)),
      Bearer(IssuedKey("W")), Bearer(<< "bad" >>),
      Bearer(Sha256Hex(HeldKey(p))) }

\* The lookup with the is_active test left out.
AuthMiddlewareAnyRow(table, header) ==
    IF header = NoHeader \/ header.scheme # "Bearer "
    THEN NoClient
    ELSE LET hit == { c \in DOMAIN table :
                        table[c].api_key = Sha256Hex(header.key) }
         IN IF hit # {} THEN CHOOSE c \in hit : TRUE ELSE NoClient

\* api/mod.rs 24-51, 69: the header, the "Bearer " prefix, the digest and
\* SELECT id, is_active FROM clients WHERE api_key = ?; the client id the
\* request goes on with, or none (401).
AuthMiddleware(table, header) ==
    IF header = NoHeader \/ header.scheme # "Bearer "
    THEN NoClient
    ELSE LET hit == { c \in DOMAIN table :
                        table[c].api_key = Sha256Hex(header.key) }
         IN IF hit # {} /\ table[CHOOSE c \in hit : TRUE].is_active = 1
            THEN CHOOSE c \in hit : TRUE
            ELSE NoClient

\* api/mod.rs 58-65: UPDATE clients SET last_seen_at = ? WHERE id = ?
SeenNow(table, c, now) == [table EXCEPT ![c].last_seen_at = now]

\* A request arrives and the middleware lets it through as client c: the
\* request is counted, the client's row is touched.
Admitted(p, header, c) ==
    /\ req[p].pc = "idle"
    /\ served < MaxWork
    /\ c = AuthMiddleware(clients, header)
    /\ c # NoClient
    /\ served' = served + 1
    /\ clients' = SeenNow(clients, c, ToRfc3339(clock))

\* api/mod.rs 27, 31, 69: the middleware answers 401 and no handler runs.
Denied(p, header) ==
    /\ req[p].pc = "idle"
    /\ served < MaxWork
    /\ AuthMiddleware(clients, header) = NoClient
    /\ served' = served + 1
    /\ req' = [req EXCEPT ![p] =
                 [ IdleReq EXCEPT !.pc = "denied", !.auth = header,
                                  !.status = 401 ]]
    /\ UNCHANGED << clock, clients, rows, devVars >>

RawDeniedDone(p) ==
    /\ req[p].pc = "denied"
    /\ req' = [req EXCEPT ![p] = IdleReq]
    /\ UNCHANGED << clock, clients, rows, devVars, served >>

\* GET /api/v1/sync/status, through the middleware.
GuardedStatus(p, header) ==
    \E c \in ClientRows :
        /\ Admitted(p, header, c)
        /\ req' = [req EXCEPT ![p] =
                     [ IdleReq EXCEPT !.pc = "status_count", !.auth = header,
                                      !.client = c ]]
        /\ UNCHANGED << clock, rows, devVars >>

\* sync.rs 47-54: SELECT COUNT(*) FROM notes WHERE client_id = ?
CountNotes(table, client) ==
    Cardinality({ id \in NoteIds :
                    table[id] # NoRow /\ table[id].client_id = client })

\* sync.rs 57-66: the greatest server_modified_at of the client's rows, or
\* the time of the request when it has none.
LastModified(table, client, now) ==
    LET mine == { id \in NoteIds :
                    table[id] # NoRow /\ table[id].client_id = client }
    IN IF mine = {}
       THEN now
       ELSE LET top == CHOOSE id \in mine :
                          \A other \in mine :
                             ~TextLess(table[id].server_modified_at,
                                       table[other].server_modified_at)
            IN table[top].server_modified_at

\* get_status, first statement.
StatusCount(p) ==
    /\ req[p].pc = "status_count"
    /\ req' = [req EXCEPT ![p].pc = "status_last",
                          ![p].note_count = CountNotes(rows, req[p].client)]
    /\ UNCHANGED << clock, clients, rows, devVars, served >>

\* get_status, second statement and the response (sync.rs 57-73).
StatusLast(p) ==
    /\ req[p].pc = "status_last"
    /\ req' = [req EXCEPT ![p].pc = "status_done",
                          ![p].status = 200,
                          ![p].server_last_modified =
                              LastModified(rows, req[p].client, ToRfc3339(clock))]
    /\ UNCHANGED << clock, clients, rows, devVars, served >>

RawStatusDone(p) ==
    /\ req[p].pc = "status_done"
    /\ req' = [req EXCEPT ![p] = IdleReq]
    /\ UNCHANGED << clock, clients, rows, devVars, served >>

\* POST /api/v1/sync/push of one note, through the middleware.
GuardedPush(p, header) ==
    \E c \in ClientRows :
        /\ Admitted(p, header, c)
        /\ req' = [req EXCEPT ![p] =
                     [ PushBegin(p, c, 1, << >>) EXCEPT !.auth = header ]]
        /\ UNCHANGED << clock, rows, devVars >>

\* POST /api/v1/sync/pull, through the middleware.
GuardedPull(p, header, hasCursor, cursor) ==
    \E c \in ClientRows :
        /\ Admitted(p, header, c)
        /\ req' = [req EXCEPT ![p] =
                     [ PullBegin(c, hasCursor, cursor) EXCEPT !.auth = header ]]
        /\ UNCHANGED << clock, rows, devVars >>

\* DELETE /api/v1/sync/notes/:id, through the middleware.
GuardedDelete(p, header, id) ==
    \E c \in ClientRows :
        /\ Admitted(p, header, c)
        /\ rows' = DeleteRow(rows, id, c)
        /\ req' = [req EXCEPT ![p] =
                     [ IdleReq EXCEPT !.pc = "delete_done", !.auth = header,
                                      !.client = c, !.status = 204 ]]
        /\ UNCHANGED << clock, devVars >>

RawDeleteDone(p) ==
    /\ req[p].pc = "delete_done"
    /\ req' = [req EXCEPT ![p] = IdleReq]
    /\ UNCHANGED << clock, clients, rows, devVars, served >>

\* The relay behind its middleware: callers that hold the key of X and the
\* key of Y send requests to the four protected routes.
GuardNext ==
    \/ Tick(MaxClock) /\ UNCHANGED << laterVars, verHist, curHist, authVars, editHist, cycleHist >>
    \/ \E p \in RawCallers : \E h \in Headers(p) :
          Denied(p, h) /\ UNCHANGED << laterVars, verHist, curHist, editHist, cycleHist >>
    \/ \E p \in RawCallers :
          RawDeniedDone(p) /\ UNCHANGED << laterVars, verHist, curHist, editHist, cycleHist >>
    \/ \E p \in RawCallers : \E h \in Headers(p) :
          GuardedStatus(p, h) /\ UNCHANGED << laterVars, verHist, curHist, editHist, cycleHist >>
    \/ \E p \in RawCallers :
          StatusCount(p) /\ UNCHANGED << laterVars, verHist, curHist, editHist, cycleHist >>
    \/ \E p \in RawCallers :
          StatusLast(p) /\ UNCHANGED << laterVars, verHist, curHist, editHist, cycleHist >>
    \/ \E p \in RawCallers :
          RawStatusDone(p) /\ UNCHANGED << laterVars, verHist, curHist, editHist, cycleHist >>
    \/ \E p \in RawCallers : \E h \in Headers(p) :
          GuardedPush(p, h) /\ UNCHANGED << laterVars, verHist, curHist, editHist, cycleHist >>
    \/ \E p \in RawCallers :
          PushSelect(p) /\ UNCHANGED << laterVars, verHist, curHist, authVars, editHist, cycleHist >>
    \/ \E p \in RawCallers :
          PushWrite(p) /\ UNCHANGED << laterVars, verHist, curHist, authVars, editHist, cycleHist >>
    \/ \E p \in RawCallers :
          RawPushDone(p) /\ UNCHANGED << laterVars, verHist, curHist, authVars, editHist, cycleHist >>
    \/ \E p \in RawCallers : \E h \in Headers(p), cursor \in Texts :
          GuardedPull(p, h, TRUE, cursor) /\ UNCHANGED << laterVars, verHist, curHist, editHist, cycleHist >>
    \/ \E p \in RawCallers : \E h \in Headers(p) :
          GuardedPull(p, h, FALSE, NoCursor) /\ UNCHANGED << laterVars, verHist, curHist, editHist, cycleHist >>
    \/ \E p \in RawCallers :
          PullSelect(p) /\ UNCHANGED << laterVars, verHist, curHist, authVars, editHist, cycleHist >>
    \/ \E p \in RawCallers :
          PullFinish(p) /\ UNCHANGED << laterVars, verHist, curHist, authVars, editHist, cycleHist >>
    \/ \E p \in RawCallers :
          RawPullDone(p) /\ UNCHANGED << laterVars, verHist, curHist, authVars, editHist, cycleHist >>
    \/ \E p \in RawCallers : \E h \in Headers(p), id \in NoteIds :
          GuardedDelete(p, h, id) /\ UNCHANGED << laterVars, verHist, curHist, editHist, cycleHist >>
    \/ \E p \in RawCallers :
          RawDeleteDone(p) /\ UNCHANGED << laterVars, verHist, curHist, editHist, cycleHist >>

SpecGuard == Init /\ [][GuardNext]_vars

\* ------------------------------------------------------------ client data
\* Both devices are registered copies of one relay identity and derive the
\* same master key from the same passphrase and salt.
ClientOf(d) == "X"
KeyOf(d) == "k"

\* What the user of device d types into a note.  Tags are typed, saved,
\* encrypted and replicated with the content; one field stands for both.
TextOf(d) == IF d = "A" THEN "a" ELSE "b"

\* CryptoService::encrypt_text / decrypt_text: AES-256-GCM opens only under
\* the key that sealed (crypto/service.rs).
EncryptText(plain, key) == [ key |-> key, plain |-> plain ]
DecryptOk(blob, key) == blob.key = key
DecryptText(blob, key) == blob.plain

\* Option<DateTime>: << >> is None, << t >> is Some(t).
OptRfc3339(opt) == IF opt = NoTime THEN NoTime ELSE ToRfc3339(opt[1])
OptSerde(opt) == IF opt = NoTime THEN NoTime ELSE SerdeTime(opt[1])
OptParse(text) == IF text = NoTime THEN NoTime ELSE << ParseTime(text) >>

\* models/note.rs 95-113: Note::new, with the id Uuid::new_v4() drew.
NewNote(id, content, now) ==
    [ id |-> id, created_at |-> now, modified_at |-> now, content |-> content,
      pinned |-> FALSE, deleted |-> FALSE, deleted_at |-> NoTime,
      version |-> 1, word_wrap |-> TRUE, syntax_language |-> "plain" ]

\* models/note.rs 116-119: Note::touch
Touch(note, now) ==
    [ note EXCEPT !.modified_at = now, !.version = note.version + 1 ]

\* repository/note.rs 38-53, 150-163: a Note as the columns of its row.
ToRow(note, key) ==
    [ id |-> note.id, created_at |-> ToRfc3339(note.created_at),
      modified_at |-> ToRfc3339(note.modified_at),
      content |-> EncryptText(note.content, key),
      pinned |-> note.pinned, deleted |-> note.deleted,
      deleted_at |-> OptRfc3339(note.deleted_at), version |-> note.version,
      word_wrap |-> note.word_wrap, syntax_language |-> note.syntax_language ]

\* repository/note.rs 237-259: a row as a Note.
FromRow(row, key) ==
    [ id |-> row.id, created_at |-> ParseTime(row.created_at),
      modified_at |-> ParseTime(row.modified_at),
      content |-> DecryptText(row.content, key),
      pinned |-> row.pinned, deleted |-> row.deleted,
      deleted_at |-> OptParse(row.deleted_at), version |-> row.version,
      word_wrap |-> row.word_wrap, syntax_language |-> row.syntax_language ]

\* The local table notes has id as its primary key: an INSERT of an id
\* that has a row fails.
InsertConflicts(table, id) == table[id] # NoNote

\* repository/note.rs 24-57: NoteRepository::create
Create(table, note, key) == [ table EXCEPT ![note.id] = ToRow(note, key) ]

\* repository/note.rs 137-168: NoteRepository::update (created_at is not
\* among the columns it sets)
Update(table, note, key) ==
    IF table[note.id] = NoNote
    THEN table
    ELSE [ table EXCEPT ![note.id] =
             [ ToRow(note, key) EXCEPT !.created_at = table[note.id].created_at ] ]

\* repository/note.rs 171-178: NoteRepository::delete (soft delete)
Delete(table, id, now) ==
    IF table[id] = NoNote
    THEN table
    ELSE [ table EXCEPT ![id] =
             [ @ EXCEPT !.deleted = TRUE, !.deleted_at = ToRfc3339(now),
                        !.modified_at = ToRfc3339(now) ] ]

\* repository/note.rs 187-263: NoteRepository::list, as the ids it returns.
List(table, include_deleted) ==
    { id \in NoteIds :
        table[id] # NoNote /\ (include_deleted \/ ~table[id].deleted) }

\* repository/note.rs 266-341: WHERE modified_at > ?1, on the stored text.
GetModifiedAfter(table, timestamp) ==
    { id \in NoteIds :
        /\ table[id] # NoNote
        /\ TextGreater(table[id].modified_at, ToRfc3339(timestamp)) }

\* repository/note.rs 191-195, 274: ORDER BY modified_at DESC
OrderedDesc(table, order) ==
    \A i, j \in DOMAIN order :
        i < j => ~TextLess(table[order[i]].modified_at,
                           table[order[j]].modified_at)

\* app.rs 846-872: a Note as the SyncNote that is pushed.
SyncNoteOf(note, key) ==
    [ id |-> note.id, created_at |-> SerdeTime(note.created_at),
      modified_at |-> SerdeTime(note.modified_at),
      content |-> EncryptText(note.content, key),
      pinned |-> note.pinned, deleted |-> note.deleted,
      deleted_at |-> OptSerde(note.deleted_at), version |-> note.version,
      word_wrap |-> note.word_wrap, syntax_language |-> note.syntax_language ]

\* app.rs 964-974: the local note with the remote's values.
Overwritten(local, remote, key) ==
    [ local EXCEPT !.content = DecryptText(remote.content, key),
                   !.modified_at = ParseTime(remote.modified_at),
                   !.pinned = remote.pinned, !.deleted = remote.deleted,
                   !.deleted_at = OptParse(remote.deleted_at),
                   !.version = remote.version,
                   !.word_wrap = remote.word_wrap,
                   !.syntax_language = remote.syntax_language ]

\* app.rs 981-993: a new Note with the remote's values.
RemoteAsNew(remote, key) ==
    [ id |-> remote.id, created_at |-> ParseTime(remote.created_at),
      modified_at |-> ParseTime(remote.modified_at),
      content |-> DecryptText(remote.content, key),
      pinned |-> remote.pinned, deleted |-> remote.deleted,
      deleted_at |-> OptParse(remote.deleted_at), version |-> remote.version,
      word_wrap |-> remote.word_wrap,
      syntax_language |-> remote.syntax_language ]

\* app.rs 937-999: one round of the loop over pull_response.notes.  acc is
\* the local table, the ids of App.notes, and whether no `?` has returned
\* an error yet.
ApplyNote(acc, remote, key) ==
    IF ~DecryptOk(remote.content, key)
    THEN [ acc EXCEPT !.ok = FALSE ]
    ELSE IF remote.id \in acc.notes
    THEN LET local_note == FromRow(acc.table[remote.id], key)
         IN IF ParseTime(remote.modified_at) > local_note.modified_at
            THEN [ acc EXCEPT !.table =
                     Update(acc.table, Overwritten(local_note, remote, key), key) ]
            ELSE acc
    ELSE IF InsertConflicts(acc.table, remote.id)
    THEN [ acc EXCEPT !.ok = FALSE ]
    ELSE [ acc EXCEPT !.table = Create(acc.table, RemoteAsNew(remote, key), key),
                      !.notes = acc.notes \cup {remote.id} ]

RECURSIVE ApplyNotes(_, _, _)
ApplyNotes(acc, notes, key) ==
    IF notes = << >> \/ ~acc.ok
    THEN acc
    ELSE ApplyNotes(ApplyNote(acc, Head(notes), key), Tail(notes), key)

\* ------------------------------------------------------------ client
\* The TUI is one thread: a key is handled only while no cycle runs.
\* app.rs 611-687: the note list is reached only when unlock loaded the
\* list, and list (repository/note.rs 240-241) fails on a row that does not
\* open under the device's key.
Unlocks(d) ==
    \A id \in List(store[d], FALSE) :
        DecryptOk(store[d][id].content, KeyOf(d))

AtKeyboard(d) == cyc[d].pc = "idle" /\ ops < MaxOps /\ Unlocks(d)

\* app.rs 690-697: load_notes
LoadNotes(table) == List(table, FALSE)

\* An id no store holds; Uuid::new_v4() (models/note.rs 100) draws one.
Unused(id) ==
    /\ rows[id] = NoRow
    /\ \A e \in Devices : store[e][id] = NoNote

\* app.rs 434-439 with save_note 712-718: a new note is saved and the list
\* reloaded.
SaveNewNote(d) ==
    /\ AtKeyboard(d)
    /\ Cardinality({ id \in NoteIds : ~Unused(id) }) < MaxNotes
    /\ LET id == CHOOSE i \in NoteIds : Unused(i)
           table == Create(store[d], NewNote(id, TextOf(d), clock), KeyOf(d))
       IN /\ store' = [store EXCEPT ![d] = table]
          /\ loaded' = [loaded EXCEPT ![d] = LoadNotes(table)]
    /\ quiet' = << >>
    /\ ops' = ops + 1
    /\ UNCHANGED << clock, relayVars, meta, cyc, cycles, served >>

\* app.rs 434-439 with save_note 704-711: an open note is saved with what
\* was typed, touched, and the list reloaded.
SaveEditedNote(d, id) ==
    /\ AtKeyboard(d)
    /\ id \in loaded[d]
    /\ LET note == FromRow(store[d][id], KeyOf(d))
           edited == Touch([note EXCEPT !.content = TextOf(d)], clock)
           table == Update(store[d], edited, KeyOf(d))
       IN /\ store' = [store EXCEPT ![d] = table]
          /\ loaded' = [loaded EXCEPT ![d] = LoadNotes(table)]
    /\ quiet' = << >>
    /\ ops' = ops + 1
    /\ UNCHANGED << clock, relayVars, meta, cyc, cycles, served >>

\* app.rs 363-380: 'p' flips pinned and writes the note; the note is not
\* touched.
TogglePin(d, id) ==
    /\ AtKeyboard(d)
    /\ id \in loaded[d]
    /\ LET note == FromRow(store[d][id], KeyOf(d))
           flipped == [note EXCEPT !.pinned = ~note.pinned]
       IN store' = [store EXCEPT ![d] = Update(store[d], flipped, KeyOf(d))]
    /\ quiet' = << >>
    /\ ops' = ops + 1
    /\ UNCHANGED << clock, relayVars, loaded, meta, cyc, cycles, served >>

\* app.rs 381-397 with delete_note 1262-1275: 'd' soft-deletes the row and
\* drops the note from the list.
DeleteNote(d, id) ==
    /\ AtKeyboard(d)
    /\ id \in loaded[d]
    /\ store' = [store EXCEPT ![d] = Delete(store[d], id, clock)]
    /\ loaded' = [loaded EXCEPT ![d] = loaded[d] \ {id}]
    /\ quiet' = << >>
    /\ ops' = ops + 1
    /\ UNCHANGED << clock, relayVars, meta, cyc, cycles, served >>

\* app.rs 910-913: the pull request.
PullRequestOf(d, last_sync) ==
    PullBegin(ClientOf(d), last_sync # NoTime, OptSerde(last_sync))

\* app.rs 812-896: perform_sync up to the request it sends first: the push
\* when there is something to push, else the pull.
SyncStart(d) ==
    /\ cyc[d].pc = "idle"
    /\ cycles < MaxCycles
    /\ cycles' = cycles + 1
    /\ LET last_sync == OptParse(meta[d].last_sync_at)
           ids == IF last_sync # NoTime
                  THEN GetModifiedAfter(store[d], last_sync[1])
                  ELSE List(store[d], FALSE)
           alone == \A e \in Devices \ {d} : cyc[e].pc = "idle"
       IN \E order \in Enumerations(ids) :
             /\ OrderedDesc(store[d], order)
             /\ LET notes_to_push ==
                        [ i \in 1..Len(order) |->
                            SyncNoteOf(FromRow(store[d][order[i]], KeyOf(d)), KeyOf(d)) ]
                IN /\ req' = [req EXCEPT ![d] =
                                IF notes_to_push # << >>
                                THEN PushBegin(d, ClientOf(d), 0, notes_to_push)
                                ELSE PullRequestOf(d, last_sync)]
                   /\ cyc' = [ e \in Devices |->
                                IF e = d
                                THEN [ pc |-> IF notes_to_push # << >>
                                              THEN "pushing" ELSE "pulling",
                                       last_sync |-> last_sync,
                                       last_push_at |-> OptParse(meta[d].last_push_at),
                                       rejected |-> {}, alone |-> alone ]
                                ELSE [ cyc[e] EXCEPT !.alone = cyc[e].pc = "idle" ] ]
    /\ UNCHANGED << clock, rows, store, loaded, meta, quiet, ops, served >>

\* app.rs 898-932: the push response is read, last_push_at noted, and the
\* pull request sent.
SyncPushDone(d) ==
    /\ cyc[d].pc = "pushing"
    /\ req[d].pc = "push_done"
    /\ cyc' = [cyc EXCEPT ![d].pc = "pulling",
                          ![d].last_push_at = << clock >>,
                          ![d].rejected =
                              { req[d].rejected[i] : i \in DOMAIN req[d].rejected }]
    /\ req' = [req EXCEPT ![d] = PullRequestOf(d, cyc[d].last_sync)]
    /\ UNCHANGED << clock, rows, store, loaded, meta, quiet, ops, cycles, served >>

\* A cycle that succeeded while no other device was in one.
Quieter(q, d) ==
    IF Len(q) < QuietCycles /\ (q = << >> \/ q[Len(q)] # d)
    THEN Append(q, d)
    ELSE q

\* app.rs 931-1018: the pull response is applied.  The first error leaves
\* perform_sync at once: what was applied stays, the metadata is not
\* written and the list is not reloaded.  (pull_response.deletions is empty,
\* sync.rs 381.)
SyncApply(d) ==
    /\ cyc[d].pc = "pulling"
    /\ req[d].pc = "pull_done"
    /\ LET acc == ApplyNotes([ table |-> store[d], notes |-> loaded[d], ok |-> TRUE ],
                             req[d].out, KeyOf(d))
       IN /\ store' = [store EXCEPT ![d] = acc.table]
          /\ IF acc.ok
             THEN /\ meta' = [meta EXCEPT ![d] =
                                [ last_sync_at |-> ToRfc3339(clock),
                                  last_push_at |-> OptRfc3339(cyc[d].last_push_at),
                                  last_pull_at |-> ToRfc3339(clock) ]]
                  /\ loaded' = [loaded EXCEPT ![d] = LoadNotes(acc.table)]
                  /\ quiet' = IF cyc[d].alone THEN Quieter(quiet, d) ELSE << >>
             ELSE /\ loaded' = [loaded EXCEPT ![d] = acc.notes]
                  /\ UNCHANGED << meta, quiet >>
    /\ req' = [req EXCEPT ![d] = IdleReq]
    /\ cyc' = [cyc EXCEPT ![d] = IdleCycle]
    /\ UNCHANGED << clock, rows, ops, cycles, served >>

\* Two devices of one identity against the relay.
SyncNext ==
    \/ Tick(MaxSyncClock) /\ UNCHANGED << laterVars, verHist, curHist, authVars, editHist, cycleHist >>
    \/ \E d \in Devices : SaveNewNote(d) /\ UNCHANGED << laterVars, verHist, curHist, authVars, editHist, cycleHist >>
    \/ \E d \in Devices, id \in NoteIds :
          SaveEditedNote(d, id) /\ UNCHANGED << laterVars, verHist, curHist, authVars, editHist, cycleHist >>
    \/ \E d \in Devices, id \in NoteIds :
          TogglePin(d, id) /\ UNCHANGED << laterVars, verHist, curHist, authVars, editHist, cycleHist >>
    \/ \E d \in Devices, id \in NoteIds :
          DeleteNote(d, id) /\ UNCHANGED << laterVars, verHist, curHist, authVars, editHist, cycleHist >>
    \/ \E d \in Devices : SyncStart(d) /\ UNCHANGED << laterVars, verHist, curHist, authVars, editHist, cycleHist >>
    \/ \E d \in Devices : PushSelect(d) /\ UNCHANGED << laterVars, verHist, curHist, authVars, editHist, cycleHist >>
    \/ \E d \in Devices : PushWrite(d) /\ UNCHANGED << laterVars, verHist, curHist, authVars, editHist, cycleHist >>
    \/ \E d \in Devices : SyncPushDone(d) /\ UNCHANGED << laterVars, verHist, curHist, authVars, editHist, cycleHist >>
    \/ \E d \in Devices : PullSelect(d) /\ UNCHANGED << laterVars, verHist, curHist, authVars, editHist, cycleHist >>
    \/ \E d \in Devices : PullFinish(d) /\ UNCHANGED << laterVars, verHist, curHist, authVars, editHist, cycleHist >>
    \/ \E d \in Devices : SyncApply(d) /\ UNCHANGED << laterVars, verHist, curHist, authVars, editHist, cycleHist >>

SpecSync == Init /\ [][SyncNext]_vars

\* ------------------------------------------------------------ failures
\* app.rs 885-896: the push request is not answered, or is answered with a
\* status that is not 2xx (sync.rs 212-216 answers 400 after the notes were
\* written); `?` and bail! leave perform_sync.  What the relay wrote stays.
\* The request is lost before the relay handled a note, or the error comes
\* after it handled them all.
SyncPushFails(d) ==
    /\ cyc[d].pc = "pushing"
    /\ req[d].pc \in {"push_select", "push_done"}
    /\ req' = [req EXCEPT ![d] = IdleReq]
    /\ cyc' = [cyc EXCEPT ![d] = IdleCycle]
    /\ UNCHANGED << clock, rows, store, loaded, meta, quiet, ops, cycles, served >>

\* The pull failure that first persists the last_push_at of line 904.
SyncPullFailsKeepingPush(d) ==
    /\ cyc[d].pc = "pulling"
    /\ req[d].pc = "pull_done"
    /\ req' = [req EXCEPT ![d] = IdleReq]
    /\ cyc' = [cyc EXCEPT ![d] = IdleCycle]
    /\ meta' = [meta EXCEPT ![d].last_push_at = OptRfc3339(cyc[d].last_push_at)]
    /\ UNCHANGED << clock, rows, store, loaded, quiet, ops, cycles, served >>

\* app.rs 915-932: the same for the pull request, which writes nothing on
\* the relay.  metadata, with the last_push_at of line 904, is dropped with
\* the stack frame.
SyncPullFails(d) ==
    /\ cyc[d].pc = "pulling"
    /\ req[d].pc = "pull_done"
    /\ req' = [req EXCEPT ![d] = IdleReq]
    /\ cyc' = [cyc EXCEPT ![d] = IdleCycle]
    /\ UNCHANGED << clock, rows, store, loaded, meta, quiet, ops, cycles, served >>

\* Another installation that holds the identity's API key.  It sealed its
\* note under the same key, or derived its key from another salt (app.rs
\* 620-637) so that the note does not open under the device's key; and it
\* names the creation time as it likes.
ForeignKey == "k2"

ForeignNote(id, t, key) ==
    [ RawNote(id, t, EncryptText("z", key)) EXCEPT
        !.created_at = SerdeTime(t) ]

ForeignNotes ==
    { ForeignNote(id, MaxClock, key) :
        id \in NoteIds, key \in {KeyOf("A"), ForeignKey} }

ForeignPush(p, c, note) ==
    /\ req[p].pc = "idle"
    /\ served < MaxForeign
    /\ served' = served + 1
    /\ req' = [req EXCEPT ![p] = PushBegin(p, c, 0, << note >>)]
    /\ UNCHANGED << clock, rows, devVars >>

\* The device that is followed through failing cycles, and the caller that
\* writes beside it.
RetryDevice == "A"
Foreigner == "r1"

\* How the cycle that applies its pull response ends: app.rs 943-998, an
\* error of decrypt_text or of create leaves perform_sync.
ApplyResult(d) ==
    IF ApplyNotes([ table |-> store[d], notes |-> loaded[d], ok |-> TRUE ],
                  req[d].out, KeyOf(d)).ok
    THEN "ok"
    ELSE "apply_failed"

\* app.rs 778-809: trigger_sync sees Ok or Err of perform_sync.
TrackOutcome(d, result) ==
    outcome' =
        [ outcome EXCEPT ![d] =
            IF cyc[d].pc = "idle" /\ cyc'[d].pc # "idle"
            THEN [ last |-> "running", pushed |-> FALSE, push_now |-> NoCursor ]
            ELSE IF cyc[d].pc = "pushing" /\ cyc'[d].pc = "pulling"
            THEN [ @ EXCEPT !.pushed = TRUE, !.push_now = req[d].now ]
            ELSE IF cyc[d].pc # "idle" /\ cyc'[d].pc = "idle"
            THEN [ @ EXCEPT !.last = result ]
            ELSE @ ]

\* The snapshot is taken when a cycle has applied its pull response, and
\* dropped by a local edit and by a write of another caller.
TrackSteady(d, result) ==
    steady' =
        [ steady EXCEPT ![d] =
            IF result \in {"ok", "apply_failed"}
            THEN [ store |-> store'[d], rows |-> rows' ]
            ELSE IF cyc[d].pc = "idle" /\ store'[d] # store[d]
            THEN NoSnapshot
            ELSE IF \E p \in RawCallers : rows' # rows /\ req'[p] # req[p]
            THEN NoSnapshot
            ELSE @ ]

TrackCycle(d, result) == TrackOutcome(d, result) /\ TrackSteady(d, result)

\* One device whose requests may fail, and a foreign writer.
RetryNext ==
    \/ Tick(MaxSyncClock)
          /\ UNCHANGED << laterVars, verHist, curHist, authVars, editHist, cycleHist >>
    \/ SaveNewNote(RetryDevice) /\ TrackCycle(RetryDevice, "none")
          /\ UNCHANGED << laterVars, verHist, curHist, authVars, editHist >>
    \/ \E id \in NoteIds :
          SaveEditedNote(RetryDevice, id) /\ TrackCycle(RetryDevice, "none")
          /\ UNCHANGED << laterVars, verHist, curHist, authVars, editHist >>
    \/ \E id \in NoteIds :
          DeleteNote(RetryDevice, id) /\ TrackCycle(RetryDevice, "none")
          /\ UNCHANGED << laterVars, verHist, curHist, authVars, editHist >>
    \/ SyncStart(RetryDevice) /\ TrackCycle(RetryDevice, "none")
          /\ UNCHANGED << laterVars, verHist, curHist, authVars, editHist >>
    \/ PushSelect(RetryDevice)
          /\ UNCHANGED << laterVars, verHist, curHist, authVars, editHist, cycleHist >>
    \/ PushWrite(RetryDevice)
          /\ UNCHANGED << laterVars, verHist, curHist, authVars, editHist, cycleHist >>
    \/ SyncPushDone(RetryDevice) /\ TrackCycle(RetryDevice, "none")
          /\ UNCHANGED << laterVars, verHist, curHist, authVars, editHist >>
    \/ SyncPushFails(RetryDevice) /\ TrackCycle(RetryDevice, "push_failed")
          /\ UNCHANGED << laterVars, verHist, curHist, authVars, editHist >>
    \/ PullSelect(RetryDevice)
          /\ UNCHANGED << laterVars, verHist, curHist, authVars, editHist, cycleHist >>
    \/ PullFinish(RetryDevice)
          /\ UNCHANGED << laterVars, verHist, curHist, authVars, editHist, cycleHist >>
    \/ SyncPullFails(RetryDevice) /\ TrackCycle(RetryDevice, "pull_failed")
          /\ UNCHANGED << laterVars, verHist, curHist, authVars, editHist >>
    \/ SyncApply(RetryDevice)
          /\ TrackCycle(RetryDevice, ApplyResult(RetryDevice))
          /\ UNCHANGED << laterVars, verHist, curHist, authVars, editHist >>
    \/ \E note \in ForeignNotes :
          ForeignPush(Foreigner, ClientOf(RetryDevice), note)
          /\ UNCHANGED << laterVars, verHist, curHist, authVars, editHist, cycleHist >>
    \/ PushSelect(Foreigner)
          /\ UNCHANGED << laterVars, verHist, curHist, authVars, editHist, cycleHist >>
    \/ PushWrite(Foreigner) /\ TrackCycle(RetryDevice, "none")
          /\ UNCHANGED << laterVars, verHist, curHist, authVars, editHist >>
    \/ RawPushDone(Foreigner)
          /\ UNCHANGED << laterVars, verHist, curHist, authVars, editHist, cycleHist >>

SpecRetry == Init /\ [][RetryNext]_vars

\* ------------------------------------------------------------ repository
\* The notes a caller of the repository may hand over: a new note, or one
\* that was touched since.
RepoNotes ==
    { NewNote(id, "a", 0) : id \in NoteIds }
    \cup { Touch(NewNote(id, "a", 0), t) : id \in NoteIds, t \in 0..MaxSyncClock }

\* repository/note.rs 24-57: execute fails on the primary key, `?` returns
\* the error; else Ok(()).
CreateResult(table, note) ==
    IF InsertConflicts(table, note.id) THEN "Err" ELSE "Ok"

\* repository/note.rs 143-167: execute returns the number of rows changed,
\* which is dropped; Ok(()) follows.
UpdateResult(table, note) == "Ok"

\* repository/note.rs 171-178: the same.
DeleteResult(table, id) == "Ok"

RepoDevice == "A"

RepoCreate(note) ==
    /\ ops < MaxOps
    /\ ops' = ops + 1
    /\ call' = [ op |-> "create", id |-> note.id,
                 existed |-> store[RepoDevice][note.id] # NoNote,
                 result |-> CreateResult(store[RepoDevice], note) ]
    /\ store' = [store EXCEPT ![RepoDevice] =
                    IF InsertConflicts(@, note.id)
                    THEN @
                    ELSE Create(@, note, KeyOf(RepoDevice))]
    /\ UNCHANGED << clock, relayVars, loaded, meta, cyc, quiet, cycles, served >>

RepoUpdate(note) ==
    /\ ops < MaxOps
    /\ ops' = ops + 1
    /\ call' = [ op |-> "update", id |-> note.id,
                 existed |-> store[RepoDevice][note.id] # NoNote,
                 result |-> UpdateResult(store[RepoDevice], note) ]
    /\ store' = [store EXCEPT ![RepoDevice] = Update(@, note, KeyOf(RepoDevice))]
    /\ UNCHANGED << clock, relayVars, loaded, meta, cyc, quiet, cycles, served >>

RepoDelete(id) ==
    /\ ops < MaxOps
    /\ ops' = ops + 1
    /\ call' = [ op |-> "delete", id |-> id,
                 existed |-> store[RepoDevice][id] # NoNote,
                 result |-> DeleteResult(store[RepoDevice], id) ]
    /\ store' = [store EXCEPT ![RepoDevice] = Delete(@, id, clock)]
    /\ UNCHANGED << clock, relayVars, loaded, meta, cyc, quiet, cycles, served >>

repoUnchanged == << verHist, curHist, authVars, editHist, cycleHist, moreVars >>

\* The repository under any caller.
RepoNext ==
    \/ Tick(MaxSyncClock) /\ UNCHANGED << call, repoUnchanged >>
    \/ \E note \in RepoNotes : RepoCreate(note) /\ UNCHANGED repoUnchanged
    \/ \E note \in RepoNotes : RepoUpdate(note) /\ UNCHANGED repoUnchanged
    \/ \E id \in NoteIds : RepoDelete(id) /\ UNCHANGED repoUnchanged

SpecRepo == Init /\ [][RepoNext]_vars

\* ------------------------------------------------------------ import
\* export.rs 29-57: a note as an export file holds it (no deleted flag, no
\* version).
ExportNoteOf(id, created, modified, content) ==
    [ id |-> id, created_at |-> ToRfc3339(created),
      modified_at |-> ToRfc3339(modified), content |-> content,
      pinned |-> FALSE, word_wrap |-> TRUE, syntax_language |-> "plain" ]

\* The files a user imports: a backup of a note, taken at some time.
ExportFiles == { ExportNoteOf(id, 0, t, "f") : id \in NoteIds, t \in Instants }

\* export.rs 107-125: the Note built from a file entry.
ImportedNote(en) ==
    [ id |-> en.id, created_at |-> ParseTime(en.created_at),
      modified_at |-> ParseTime(en.modified_at), content |-> en.content,
      pinned |-> en.pinned, deleted |-> FALSE, deleted_at |-> NoTime,
      version |-> 1, word_wrap |-> en.word_wrap,
      syntax_language |-> en.syntax_language ]

\* main.rs 129-131: the import command derives its key from the password
\* and a salt it has just generated, not the salt the database keeps.
ImportKey == "ki"

\* export.rs 127-136: create, and update when create fails.
ImportNote(table, en, key) ==
    IF InsertConflicts(table, en.id)
    THEN Update(table, ImportedNote(en), key)
    ELSE Create(table, ImportedNote(en), key)

\* main.rs 124-134: `import` run from the command line while the TUI is
\* closed.  The imported row is not deleted and is sealed under ImportKey,
\* so the next unlock loads nothing.
ImportNotes(d, en) ==
    /\ cyc[d].pc = "idle" /\ ops < MaxOps
    /\ \/ store[d][en.id] # NoNote
       \/ /\ Unused(en.id)
          /\ Cardinality({ id \in NoteIds : ~Unused(id) }) < MaxNotes
    /\ LET table == ImportNote(store[d], en, ImportKey)
       IN /\ store' = [store EXCEPT ![d] = table]
          /\ loaded' = [loaded EXCEPT ![d] = {}]
    /\ quiet' = << >>
    /\ ops' = ops + 1
    /\ UNCHANGED << clock, relayVars, meta, cyc, cycles, served >>

\* Mutations counted per note: 1 when the row appears, one more for every
\* change of the row.
TrackMutations ==
    mutations' =
        [ d \in Devices |-> [ id \in NoteIds |->
            IF store'[d][id] = store[d][id]
            THEN mutations[d][id]
            ELSE IF store[d][id] = NoNote THEN 1 ELSE mutations[d][id] + 1 ] ]

\* An imported note is not counted.
ForgetMutations(id) ==
    mutations' = [ d \in Devices |->
                     [ mutations[d] EXCEPT ![id] =
                         IF store'[d][id] = store[d][id] THEN @ ELSE 0 ] ]

\* The stores of the devices under their users' hands, no relay in reach.
LocalNext ==
    \/ Tick(MaxSyncClock)
          /\ UNCHANGED << laterVars, verHist, curHist, authVars, editHist, cycleHist >>
    \/ \E d \in Devices :
          SaveNewNote(d) /\ TrackMutations
          /\ UNCHANGED << laterVars, verHist, curHist, authVars, cycleHist >>
    \/ \E d \in Devices, id \in NoteIds :
          SaveEditedNote(d, id) /\ TrackMutations
          /\ UNCHANGED << laterVars, verHist, curHist, authVars, cycleHist >>
    \/ \E d \in Devices, id \in NoteIds :
          TogglePin(d, id) /\ TrackMutations
          /\ UNCHANGED << laterVars, verHist, curHist, authVars, cycleHist >>
    \/ \E d \in Devices, id \in NoteIds :
          DeleteNote(d, id) /\ TrackMutations
          /\ UNCHANGED << laterVars, verHist, curHist, authVars, cycleHist >>
    \/ \E d \in Devices, en \in ExportFiles :
          ImportNotes(d, en) /\ ForgetMutations(en.id)
          /\ UNCHANGED << laterVars, verHist, curHist, authVars, cycleHist >>

SpecLocal == Init /\ [][LocalNext]_vars

\* ------------------------------------------------------------ properties
\* The step decides the current note of p's push request.
Decides(p) == req[p].pc = "push_write" /\ req'[p].pc # "push_write"

\* The row of the pushing client under the note's id, as the table holds it.
StoredFor(p) == 
    LET row == rows[req[p].cur.id]
    IN IF row # NoRow /\ row.client_id = req[p].client THEN row ELSE NoRow

\* The table still holds what the handler's existence query read.
ReadIsCurrent(p) ==
    IF StoredFor(p) = NoRow
    THEN req[p].existing = NoRow
    ELSE /\ req[p].existing # NoRow
         /\ req[p].existing.modified_at = StoredFor(p).modified_at
         /\ req[p].existing.server_version = StoredFor(p).server_version

C2_StoredNeverDecreases ==
    [][ \A id \in NoteIds :
          (rows[id] # NoRow /\ rows'[id] # NoRow) =>
             ~TextLess(rows'[id].modified_at, rows[id].modified_at) ]_vars

\* C3: the server_version of each accepted write of an id is greater than
\* every server_version assigned to that id before, DELETE requests
\* included; the first one is 1.
C3_VersionsIncrease ==
    [][ \A id \in NoteIds :
          (\E p \in Callers : AcceptedWrite(p, id)) =>
             /\ verAssigned'[id] > verAssigned[id]
             /\ (verAssigned[id] = 0 => verAssigned'[id] = 1) ]_vars

\* C4: the server_version of a relay row equals the number of writes the
\* relay reported as accepted for its id.
C4_VersionCountsAccepted ==
    \A id \in NoteIds :
        rows[id] # NoRow => rows[id].server_version = accCount[id]

\* The step starts a cycle of d.
Starts(d) == cyc[d].pc = "idle" /\ cyc'[d].pc # "idle"

\* The step applies the pull response of d's cycle and ends the cycle.
Applies(d) == cyc[d].pc = "pulling" /\ cyc'[d].pc = "idle"

\* The local row carries the replicated fields of the pulled note.
HoldsRemote(row, remote, key) ==
    /\ row # NoNote
    /\ DecryptText(row.content, key) = DecryptText(remote.content, key)
    /\ ParseTime(row.modified_at) = ParseTime(remote.modified_at)
    /\ row.pinned = remote.pinned
    /\ row.deleted = remote.deleted
    /\ OptParse(row.deleted_at) = OptParse(remote.deleted_at)
    /\ row.version = remote.version
    /\ row.word_wrap = remote.word_wrap
    /\ row.syntax_language = remote.syntax_language

\* C5: applying a pulled note inserts it when its id has no local row;
\* when it has one, the replicated fields are overwritten with the remote
\* values iff the remote modified_at is strictly greater than the local
\* one, and the row is left as it was otherwise.
C5_ApplyPulled ==
    [][ \A d \in Devices :
          Applies(d) =>
             \A i \in DOMAIN req[d].out :
                LET remote == req[d].out[i]
                    before == store[d][remote.id]
                    after == store'[d][remote.id]
                IN IF before = NoNote
                   THEN HoldsRemote(after, remote, KeyOf(d))
                   ELSE IF ParseTime(remote.modified_at) > ParseTime(before.modified_at)
                        THEN HoldsRemote(after, remote, KeyOf(d))
                        ELSE after = before ]_vars

\* A note as its user sees it: nothing when there is no row or the row is
\* deleted.
View(d, id) ==
    IF store[d][id] = NoNote \/ store[d][id].deleted
    THEN NoNote
    ELSE FromRow(store[d][id], KeyOf(d))

\* C6: once edits have stopped and the devices have in turn completed
\* successful cycles, every device shows the same notes.
C6_Converged ==
    ( /\ \A d \in Devices : cyc[d].pc = "idle"
      /\ Len(quiet) = QuietCycles ) =>
        \A d, e \in Devices : \A id \in NoteIds : View(d, id) = View(e, id)

\* C7: a cycle pushes, with deleted = true, every local row that is marked
\* deleted and was modified after the previous sync, or any time before
\* the first one.
C7_DeletedPushed ==
    [][ \A d \in Devices :
          Starts(d) =>
             \A id \in NoteIds :
                ( /\ store[d][id] # NoNote
                  /\ store[d][id].deleted
                  /\ \/ meta[d].last_sync_at = NoTime
                     \/ ParseTime(store[d][id].modified_at)
                            > ParseTime(meta[d].last_sync_at) ) =>
                   /\ req'[d].pc = "push_select"
                   /\ \E i \in DOMAIN req'[d].notes :
                         /\ req'[d].notes[i].id = id
                         /\ req'[d].notes[i].deleted ]_vars

\* C8: a note the push of a cycle had rejected, the relay's copy being no
\* older than the local one, is among the notes the pull of that cycle
\* returns, and when the cycle ends the local row holds the relay's copy.
C8_RejectedResolved ==
    [][ \A d \in Devices :
          Applies(d) =>
             \A rej \in cyc[d].rejected :
                ParseTime(rej.server_modified_at)
                      >= ParseTime(store[d][rej.id].modified_at) =>
                   \E i \in DOMAIN req[d].out :
                      /\ req[d].out[i].id = rej.id
                      /\ HoldsRemote(store'[d][rej.id], req[d].out[i], KeyOf(d)) ]_vars

\* The step runs the notes query of p's pull request.
Queries(p) == req[p].pc = "pull_select" /\ req'[p].pc = "pull_finish"

C10_PullIdempotent ==
    [][ \A p \in Callers :
          /\ ( /\ Queries(p)
               /\ req[p].hasCursor
               /\ lastCursor[p] # NoCursor
               /\ req[p].cursor = lastCursor[p]
               /\ cursorClean[p] ) => req'[p].out = << >>
          /\ (req[p].pc = "pull_finish" /\ req'[p].pc = "pull_done") =>
                req'[p].deletions = << >> ]_vars

\* A pull on the cursor the caller was handed came back empty although the
\* client has rows on the relay.
C10_Witness ==
    \E p \in Callers :
        /\ req[p].pc = "pull_finish"
        /\ req[p].hasCursor
        /\ req[p].cursor = lastCursor[p]
        /\ cursorClean[p]
        /\ req[p].out = << >>
        /\ \E id \in NoteIds :
              rows[id] # NoRow /\ rows[id].client_id = req[p].client

\* The body is one that only callers holding client c's key send.
WrittenFor(content, c) ==
    \A q \in RawCallers :
        content = BodyOf(q) => AuthMiddleware(clients, Bearer(HeldKey(q))) = c

\* C11: a pull authenticated as a client returns, and a status request
\* authenticated as it counts, only notes written by pushes authenticated
\* as that client.
C11_ChangeSetsDisjoint ==
    [][ \A p \in RawCallers :
          /\ Queries(p) =>
                \A i \in DOMAIN req'[p].out :
                   WrittenFor(req'[p].out[i].content, req[p].client)
          /\ (req[p].pc = "status_count" /\ req'[p].pc = "status_last") =>
                \A id \in NoteIds :
                   (rows[id] # NoRow /\ rows[id].client_id = req[p].client) =>
                      WrittenFor(rows[id].content, req[p].client) ]_vars

\* The header is a Bearer key whose digest is the api_key of the active
\* clients row c.
ValidBearer(header, c) ==
    /\ header # NoHeader
    /\ header.scheme = "Bearer "
    /\ c \in ClientRows
    /\ clients[c].api_key = Sha256Hex(header.key)
    /\ clients[c].is_active = 1

\* The step is the arrival of p's request.
Arrives(p) == req[p].pc = "idle" /\ req'[p].pc # "idle"

\* C12: a request whose handler runs carries a Bearer key whose SHA-256 hex
\* is the api_key of an active client, the handler acts as that client and
\* the client's last_seen_at is set to the time of arrival; any other
\* request is answered 401 and leaves the notes table as it was; only
\* admitted requests change the notes table.
C12_Guarded ==
    [][ /\ \A p \in RawCallers :
             Arrives(p) =>
                IF \E c \in ClientRows : ValidBearer(req'[p].auth, c)
                THEN /\ req'[p].pc # "denied"
                     /\ ValidBearer(req'[p].auth, req'[p].client)
                     /\ clients'[req'[p].client].last_seen_at = ToRfc3339(clock)
                ELSE /\ req'[p].pc = "denied"
                     /\ req'[p].status = 401
                     /\ rows' = rows
                     /\ clients' = clients
        /\ rows' # rows =>
              \E p \in RawCallers :
                 \/ /\ req[p].pc = "push_write"
                    /\ ValidBearer(req[p].auth, req[p].client)
                 \/ /\ Arrives(p)
                    /\ req'[p].pc = "delete_done"
                    /\ ValidBearer(req'[p].auth, req'[p].client) ]_vars

\* One request was refused although it carried the key of a registered
\* (inactive) client, while an admitted request of another caller has been
\* answered and its client's last_seen_at has moved on.
C12_Witness ==
    \E p, q \in RawCallers :
        /\ req[p].pc = "denied"
        /\ req[p].auth = Bearer(IssuedKey("W"))
        /\ req[q].pc = "status_done"
        /\ clients[req[q].client].last_seen_at = ToRfc3339(1)
        /\ clients["W"].last_seen_at = ToRfc3339(0)

\* C18: list(include_deleted = true) holds one row per note id, and the
\* row's version is the number of create, update (edit, pin toggle) and
\* soft-delete operations applied to the note, 1 after create.
C18_VersionCountsMutations ==
    \A d \in Devices : \A id \in NoteIds :
        mutations[d][id] > 0 =>
           /\ id \in List(store[d], TRUE)
           /\ store[d][id].version = mutations[d][id]

\* C19: the version of a local note never decreases: not by a local
\* mutation, not by a remote overwrite during sync, not by the import of an
\* id the store already holds.
C19_VersionNeverDecreases ==
    [][ \A d \in Devices : \A id \in NoteIds :
          (store[d][id] # NoNote /\ store'[d][id] # NoNote)
             => store'[d][id].version >= store[d][id].version ]_vars

\* C17: when a pushed note carries the modified_at the relay already holds
\* for that id (of the same client), the stored row is kept and the note is
\* rejected, whatever other request is being handled at the same time.
C17_TiesKeepFirst ==
    [][ \A p \in Callers :
          ( /\ Decides(p)
            /\ StoredFor(p) # NoRow
            /\ StoredFor(p).modified_at = req[p].cur.modified_at )
          => /\ rows' = rows
             /\ Len(req'[p].rejected) = Len(req[p].rejected) + 1 ]_vars

\* The step ends a cycle of d.
Ends(d) == cyc[d].pc # "idle" /\ cyc'[d].pc = "idle"

\* C13: a cycle that fails (the push or the pull request fails or is
\* answered with an error status, or a pulled note does not decrypt) leaves
\* the persisted sync metadata as it was: the metadata changes only in the
\* step that ends a cycle with success.
C13_FailureKeepsMetadata ==
    [][ \A d \in Devices :
          meta'[d] # meta[d] => (Ends(d) /\ outcome'[d].last = "ok") ]_vars

\* A cycle whose push was answered failed on a note that does not decrypt,
\* on a device that had synced before.
C13_Witness ==
    /\ outcome[RetryDevice].last = "apply_failed"
    /\ outcome[RetryDevice].pushed
    /\ meta[RetryDevice].last_sync_at # NoTime
    /\ \A id \in NoteIds :
          store[RetryDevice][id] # NoNote => ~store[RetryDevice][id].deleted
    /\ \E id \in NoteIds :
          /\ store[RetryDevice][id] = NoNote
          /\ rows[id] # NoRow
          /\ ~DecryptOk(rows[id].content, KeyOf(RetryDevice))

\* C14: after a successful cycle the persisted last_pull_at and last_sync_at
\* are the instant of the synced_at the relay returned with the pull, and
\* last_push_at, when a push was answered, is the instant of a synced_at the
\* relay returned in that cycle.
C14_StampsAreTheRelays ==
    [][ \A d \in Devices :
          (Ends(d) /\ outcome'[d].last = "ok")
          => /\ ParseTime(meta'[d].last_sync_at) = ParseTime(req[d].synced_at)
             /\ ParseTime(meta'[d].last_pull_at) = ParseTime(req[d].synced_at)
             /\ outcome[d].pushed =>
                   ParseTime(meta'[d].last_push_at) \in
                      { ParseTime(outcome[d].push_now),
                        ParseTime(req[d].synced_at) } ]_vars

\* C15: when the push of a cycle was answered and the pull request then
\* fails, the persisted last_push_at records that push (it is not earlier
\* than the relay's stamp of the push) and last_sync_at is not advanced.
C15_PushIsRetained ==
    [][ \A d \in Devices :
          (Ends(d) /\ outcome'[d].last = "pull_failed" /\ outcome[d].pushed)
          => /\ meta'[d].last_sync_at = meta[d].last_sync_at
             /\ meta'[d].last_push_at # NoTime
             /\ ParseTime(meta'[d].last_push_at)
                   >= ParseTime(outcome[d].push_now) ]_vars

\* C16: a cycle that applies its pull response while nothing was edited
\* locally and nothing was written by another caller since the device's last
\* cycle applied its own (to the end or not), and while every row the relay
\* holds opens under the device's key, succeeds and leaves the device's
\* notes and the relay's rows as that cycle left them.
C16_RerunIsIdempotent ==
    [][ \A d \in Devices :
          ( /\ Ends(d)
            /\ outcome'[d].last \in {"ok", "apply_failed"}
            /\ steady[d] # NoSnapshot
            /\ \A id \in NoteIds :
                  rows[id] # NoRow => DecryptOk(rows[id].content, KeyOf(d)) )
          => /\ outcome'[d].last = "ok"
             /\ store'[d] = steady[d].store
             /\ rows' = steady[d].rows ]_vars

\* C20: created_at of a note never changes: not in the local store by an
\* update, a soft-delete or a remote overwrite, and not on the relay by a
\* later accepted push of the id.
C20_CreatedAtKept ==
    [][ /\ \A d \in Devices : \A id \in NoteIds :
              (store[d][id] # NoNote /\ store'[d][id] # NoNote)
                 => store'[d][id].created_at = store[d][id].created_at
        /\ \A id \in NoteIds :
              (rows[id] # NoRow /\ rows'[id] # NoRow)
                 => rows'[id].created_at = rows[id].created_at ]_vars

\* The relay row took a later push that named another creation time and
\* kept the device's; the device's row was overwritten by that note in a
\* pull and soft-deleted afterwards.
C20_Witness ==
    \E id \in NoteIds :
        /\ rows[id] # NoRow
        /\ rows[id].server_version >= 2
        /\ rows[id].content = EncryptText("z", KeyOf(RetryDevice))
        /\ rows[id].created_at # SerdeTime(MaxClock)
        /\ store[RetryDevice][id] # NoNote
        /\ store[RetryDevice][id].content = EncryptText("z", KeyOf(RetryDevice))
        /\ store[RetryDevice][id].deleted
        /\ ParseTime(store[RetryDevice][id].created_at) = ParseTime(rows[id].created_at)

\* C21: NoteRepository::update for an id that has no row fails with
\* NotFound and leaves the store unchanged.
C21_UpdateOfMissingFails ==
    [][ (call' # call /\ call'.op = "update" /\ ~call'.existed)
           => (call'.result = "NotFound" /\ store' = store) ]_vars

\* ------------------------------------------------------------ key manager
\* crypto/key_manager.rs. Instant::now() reads the monotonic clock, which
\* the model advances in steps of InstantStep seconds up to MaxInstant.
InstantStep == 30
MaxInstant == 180
AutoLockMinutes == {0, 1, 2}
MasterKeys == {"k", "k2"}

\* key_manager.rs 118: Duration::from_secs(timeout_minutes * 60)
DurationOfMinutes(minutes) == minutes * 60

\* key_manager.rs 68-69 and 152-153: last_activity.elapsed() > duration
Expired(k, now) ==
    \E duration \in k.auto_lock_duration : now - k.last_activity > duration

\* key_manager.rs 64-78: get_master_key clears the key it finds expired
AfterGet(k, now) ==
    IF Expired(k, now) THEN [k EXCEPT !.master_key = {}] ELSE k

\* key_manager.rs 150-157
ShouldLockResult(k, now) == Expired(k, now) /\ k.master_key # {}

KmAdvance ==
    /\ instant + InstantStep <= MaxInstant
    /\ instant' = instant + InstantStep
    /\ UNCHANGED << km, kret >>

\* key_manager.rs 81-85
KmSetMasterKey(key) ==
    /\ km' = [km EXCEPT !.master_key = {key}, !.last_activity = instant]
    /\ kret' = [ op |-> "set_master_key", result |-> {} ]
    /\ UNCHANGED instant

\* key_manager.rs 64-78
KmGetMasterKey ==
    /\ km' = AfterGet(km, instant)
    /\ kret' = [ op |-> "get_master_key", result |-> AfterGet(km, instant).master_key ]
    /\ UNCHANGED instant

\* key_manager.rs 99-101: is_locked is get_master_key().is_none()
KmIsLocked ==
    /\ km' = AfterGet(km, instant)
    /\ kret' = [ op |-> "is_locked", result |-> {AfterGet(km, instant).master_key = {}} ]
    /\ UNCHANGED instant

\* key_manager.rs 89-96
KmClearMasterKey ==
    /\ km' = [km EXCEPT !.master_key = {}]
    /\ kret' = [ op |-> "clear_master_key", result |-> {} ]
    /\ UNCHANGED instant

\* key_manager.rs 104-107
KmRegisterActivity ==
    /\ km' = [km EXCEPT !.last_activity = instant]
    /\ kret' = [ op |-> "register_activity", result |-> {} ]
    /\ UNCHANGED instant

\* key_manager.rs 113-120
KmSetAutoLock(minutes) ==
    /\ km' = [km EXCEPT !.auto_lock_duration =
                 IF minutes = 0 THEN {} ELSE {DurationOfMinutes(minutes)}]
    /\ kret' = [ op |-> "set_auto_lock", result |-> {} ]
    /\ UNCHANGED instant

\* key_manager.rs 150-157: should_lock reads and changes nothing
KmShouldLock ==
    /\ kret' = [ op |-> "should_lock", result |-> {ShouldLockResult(km, instant)} ]
    /\ UNCHANGED << km, instant >>

\* History: the timeout has elapsed at some moment since set_master_key
\* was last called.
TrackLapsed ==
    lapsed' = IF kret' # kret /\ kret'.op = "set_master_key"
              THEN FALSE
              ELSE lapsed \/ Expired(km, instant') \/ Expired(km', instant')

keysUnchanged == << clock, relayVars, devVars, served, call, verHist, curHist,
                    authVars, editHist, cycleHist, setVars, attVars, sessVars,
                    cryptoVars >>

KeysNext ==
    \/ KmAdvance /\ TrackLapsed /\ UNCHANGED keysUnchanged
    \/ \E key \in MasterKeys :
           KmSetMasterKey(key) /\ lapsed' = FALSE /\ UNCHANGED keysUnchanged
    \/ KmGetMasterKey /\ TrackLapsed /\ UNCHANGED keysUnchanged
    \/ KmIsLocked /\ TrackLapsed /\ UNCHANGED keysUnchanged
    \/ KmClearMasterKey /\ TrackLapsed /\ UNCHANGED keysUnchanged
    \/ KmRegisterActivity /\ TrackLapsed /\ UNCHANGED keysUnchanged
    \/ \E minutes \in AutoLockMinutes :
           KmSetAutoLock(minutes) /\ TrackLapsed /\ UNCHANGED keysUnchanged
    \/ KmShouldLock /\ TrackLapsed /\ UNCHANGED keysUnchanged

SpecKeys == Init /\ [][KeysNext]_vars

\* C25: once the auto-lock duration has elapsed since the last registered
\* activity, get_master_key returns no key until set_master_key is called
\* again, whatever register_activity, set_auto_lock and should_lock calls
\* happen in between.
C25_NoStaleKey ==
    [][ (KmGetMasterKey /\ lapsed) => kret'.result = {} ]_vars


\* ------------------------------------------------------------ settings
\* models/settings.rs 6-13: the fields of UserSettings. An endpoint is the
\* text << scheme, rest >>; Option<String> is the empty set or a singleton.
Themes == {"light", "auto"}
SortOrders == {"recent", "alpha"}
Timeouts == {0, 1, 15, 1440, 1441}
Endpoints == { << "https://", "r" >>, << "http://", "r" >>, << "ftp://", "r" >>, << >> }
OptEndpoints == { {} } \cup { {e} : e \in Endpoints }

MinAutoLock == 1
MaxAutoLock == 1440

AnySettings ==
    [ theme : Themes, sort_order : SortOrders, auto_lock_timeout : Timeouts,
      sync_enabled : BOOLEAN, sync_endpoint : OptEndpoints ]

\* str::starts_with
StartsWith(text, prefix) == Len(text) >= 1 /\ text[1] = prefix

\* models/settings.rs 81-97: validate
Validate(u) ==
    IF u.auto_lock_timeout < MinAutoLock \/ u.auto_lock_timeout > MaxAutoLock
    THEN "Err"
    ELSE IF u.sync_enabled /\ u.sync_endpoint = {}
    THEN "Err"
    ELSE IF \E e \in u.sync_endpoint :
                ~StartsWith(e, "http://") /\ ~StartsWith(e, "https://")
    THEN "Err"
    ELSE "Ok"

\* UPDATE settings SET ... WHERE id = 1: changes the row when there is one
UpdateRow(table, field, value) ==
    { [row EXCEPT ![field] = value] : row \in table }

\* repository/settings.rs 40-58: validate, then INSERT OR REPLACE
SettingsUpdate(u) ==
    /\ settings' = IF Validate(u) = "Ok" THEN {u} ELSE settings
    /\ scall' = [ op |-> "update", result |-> Validate(u) ]

\* repository/settings.rs 61-65: update_field, here of the endpoint column
SettingsUpdateField(e) ==
    /\ settings' = UpdateRow(settings, "sync_endpoint", {e})
    /\ scall' = [ op |-> "update_field", result |-> "Ok" ]

\* repository/settings.rs 68-74
SetSyncEnabled(enabled) ==
    /\ settings' = UpdateRow(settings, "sync_enabled", enabled)
    /\ scall' = [ op |-> "set_sync_enabled", result |-> "Ok" ]

\* repository/settings.rs 77-83
SetSyncEndpoint(endpoint) ==
    /\ settings' = UpdateRow(settings, "sync_endpoint", endpoint)
    /\ scall' = [ op |-> "set_sync_endpoint", result |-> "Ok" ]

\* repository/settings.rs 86-92
SetTheme(theme) ==
    /\ settings' = UpdateRow(settings, "theme", theme)
    /\ scall' = [ op |-> "set_theme", result |-> "Ok" ]

\* repository/settings.rs 95-101
SetSortOrder(sort_order) ==
    /\ settings' = UpdateRow(settings, "sort_order", sort_order)
    /\ scall' = [ op |-> "set_sort_order", result |-> "Ok" ]

\* repository/settings.rs 104-114
SetAutoLockTimeout(minutes) ==
    LET refused == minutes < MinAutoLock \/ minutes > MaxAutoLock
    IN  /\ settings' = IF refused THEN settings
                       ELSE UpdateRow(settings, "auto_lock_timeout", minutes)
        /\ scall' = [ op |-> "set_auto_lock_timeout",
                      result |-> IF refused THEN "Err" ELSE "Ok" ]

settingsUnchanged == << clock, relayVars, devVars, served, call, verHist, curHist,
                        authVars, editHist, cycleHist, keyVars, attVars, sessVars,
                        cryptoVars >>

SettingsNext ==
    \/ \E u \in AnySettings : SettingsUpdate(u) /\ UNCHANGED settingsUnchanged
    \/ \E e \in Endpoints : SettingsUpdateField(e) /\ UNCHANGED settingsUnchanged
    \/ \E enabled \in BOOLEAN : SetSyncEnabled(enabled) /\ UNCHANGED settingsUnchanged
    \/ \E endpoint \in OptEndpoints :
           SetSyncEndpoint(endpoint) /\ UNCHANGED settingsUnchanged
    \/ \E theme \in Themes : SetTheme(theme) /\ UNCHANGED settingsUnchanged
    \/ \E sort_order \in SortOrders :
           SetSortOrder(sort_order) /\ UNCHANGED settingsUnchanged
    \/ \E minutes \in Timeouts :
           SetAutoLockTimeout(minutes) /\ UNCHANGED settingsUnchanged

SpecSettings == Init /\ [][SettingsNext]_vars

\* C30: the persisted settings row always satisfies validation, after any
\* sequence of update and narrow-setter calls.
C30_RowAlwaysValid == \A row \in settings : Validate(row) = "Ok"


\* ------------------------------------------------------------ attachments
\* server db.rs 3-15: the pool opens up to five connections; two are
\* modelled.  PRAGMA foreign_keys = ON is executed once, on the connection
\* the pool hands out for it.
Conns == {"conn1", "conn2"}
PragmaConn == "conn1"

\* Foreign keys enforced on the connection that ran the PRAGMA and on no
\* other.
EnforcesOnlyWherePragmaRan(conn) == conn = PragmaConn

\* server db.rs 4-7: a connection is opened with the connect options that
\* sqlx parses from the URL, and sqlx opens every SQLite connection with
\* foreign_keys = ON unless the options say otherwise.
EnforcesForeignKeys(conn) == TRUE

\* The relay's schema: attachments_meta.note_id refers to notes.id and
\* attachments_data.id to attachments_meta.id, both ON DELETE CASCADE.
MetaOf(table, id) == { a \in AttIds : table[a] # NoRow /\ table[a].note_id = id }

CascadeMeta(table, id) ==
    [ a \in AttIds |-> IF a \in MetaOf(table, id) THEN NoRow ELSE table[a] ]

CascadeData(data, table, id) == data \ MetaOf(table, id)

\* sync.rs 176-197: INSERT INTO attachments_meta ... ON CONFLICT(id) DO
\* UPDATE SET filename, mime_type, size: note_id stays as first written.
UpsertMeta(table, a, id, name) ==
    IF table[a] = NoRow
    THEN [table EXCEPT ![a] = [ note_id |-> id, filename |-> name ]]
    ELSE [table EXCEPT ![a].filename = name]

\* A push of one note that carries attachment references and blobs
\* (sync.rs 84-167): the existence query, the decision and the upsert.
AttPush(p, c, note, refs, blobs) ==
    /\ areq[p].pc = "idle"
    /\ served < MaxWork
    /\ served' = served + 1
    /\ LET existing == SelectExisting(rows, note.id, c)
           now == ToRfc3339(clock)
       IN IF ShouldAccept(note, existing)
          THEN /\ rows' = Upsert(rows, c, note, now, NewServerVersion(existing))
               /\ areq' = [areq EXCEPT ![p] =
                             [ pc |-> "meta", client |-> c, id |-> note.id,
                               now |-> now, refs |-> refs, blobs |-> blobs,
                               status |-> 0 ]]
          ELSE /\ rows' = rows
               /\ areq' = [areq EXCEPT ![p] =
                             [ pc |-> "data", client |-> c, id |-> note.id,
                               now |-> now, refs |-> {}, blobs |-> blobs,
                               status |-> 0 ]]
    /\ UNCHANGED << clock, req, devVars, attMeta, attData, dcall >>

\* sync.rs 176-197: the metadata row of the next reference, on whichever
\* connection the pool hands out.  The insert of a row whose note is gone
\* fails where foreign keys are enforced, and `?` ends the handler.
AttPushMeta(p, conn) ==
    /\ areq[p].pc = "meta"
    /\ IF areq[p].refs = {}
       THEN /\ areq' = [areq EXCEPT ![p].pc = "data"]
            /\ UNCHANGED attMeta
       ELSE \E a \in areq[p].refs :
              IF /\ EnforcesForeignKeys(conn)
                 /\ attMeta[a] = NoRow
                 /\ rows[areq[p].id] = NoRow
              THEN /\ areq' = [areq EXCEPT ![p].pc = "done", ![p].status = 500]
                   /\ UNCHANGED attMeta
              ELSE /\ attMeta' = UpsertMeta(attMeta, a, areq[p].id, BodyOf(p))
                   /\ areq' = [areq EXCEPT ![p].refs = @ \ {a}]
    /\ UNCHANGED << clock, rows, req, devVars, served, attData, dcall >>

\* sync.rs 212-232: the blob of the next attachment; a blob that is not
\* base64 ends the handler with 400.
AttPushData(p, conn, decodes) ==
    /\ areq[p].pc = "data"
    /\ IF areq[p].blobs = {}
       THEN /\ areq' = [areq EXCEPT ![p].pc = "done", ![p].status = 200]
            /\ UNCHANGED attData
       ELSE \E a \in areq[p].blobs :
              IF ~decodes
              THEN /\ areq' = [areq EXCEPT ![p].pc = "done", ![p].status = 400]
                   /\ UNCHANGED attData
              ELSE IF /\ EnforcesForeignKeys(conn)
                      /\ a \notin attData
                      /\ attMeta[a] = NoRow
              THEN /\ areq' = [areq EXCEPT ![p].pc = "done", ![p].status = 500]
                   /\ UNCHANGED attData
              ELSE /\ attData' = attData \cup {a}
                   /\ areq' = [areq EXCEPT ![p].blobs = @ \ {a}]
    /\ UNCHANGED << clock, rows, req, devVars, served, attMeta, dcall >>

\* The caller reads the response (sync.rs 235-239).
AttPushDone(p) ==
    /\ areq[p].pc = "done"
    /\ areq' = [areq EXCEPT ![p] = IdleAttReq]
    /\ UNCHANGED << clock, rows, req, devVars, served, attMeta, attData, dcall >>

\* sync.rs 395-413: delete_note, one DELETE statement on whichever
\* connection the pool hands out; the cascade runs where foreign keys are
\* enforced.
AttDelete(c, id, conn) ==
    LET owned == rows[id] # NoRow /\ rows[id].client_id = c
        cascades == owned /\ EnforcesForeignKeys(conn)
    IN  /\ served < MaxWork
        /\ served' = served + 1
        /\ rows' = DeleteRow(rows, id, c)
        /\ attMeta' = IF cascades THEN CascadeMeta(attMeta, id) ELSE attMeta
        /\ attData' = IF cascades THEN CascadeData(attData, attMeta, id) ELSE attData
        /\ dcall' = [ id |-> id, client |-> c, conn |-> conn, owned |-> owned,
                      meta |-> MetaOf(attMeta, id),
                      data |-> attData \cap MetaOf(attMeta, id) ]
        /\ UNCHANGED << clock, req, devVars, areq >>

\* One caller pushes, as either client; any client deletes.
AttCaller == "r1"

attUnchanged == << call, verHist, curHist, authVars, editHist, cycleHist,
                   keyVars, setVars, sessVars, cryptoVars >>

AttNext ==
    \/ Tick(MaxClock) /\ UNCHANGED << attVars, attUnchanged >>
    \/ \E c \in Clients, note \in RawNotes(AttCaller), refs \in SUBSET AttIds :
          \E blobs \in {{}, refs} :
              AttPush(AttCaller, c, note, refs, blobs) /\ UNCHANGED attUnchanged
    \/ \E conn \in Conns :
          AttPushMeta(AttCaller, conn) /\ UNCHANGED attUnchanged
    \/ \E conn \in Conns, decodes \in BOOLEAN :
          AttPushData(AttCaller, conn, decodes) /\ UNCHANGED attUnchanged
    \/ AttPushDone(AttCaller) /\ UNCHANGED attUnchanged
    \/ \E c \in Clients, id \in NoteIds, conn \in Conns :
          AttDelete(c, id, conn) /\ UNCHANGED attUnchanged

SpecAttach == Init /\ [][AttNext]_vars

Passwords == {"p1", "p2"}
FreshSalt == "s0"
ApiKeyText == "ak"
SetupIterations == 256000
ImportIterations == 100000
MinSaltLen == 32

\* The salt a bootstrap payload may carry: none, a 32 byte salt, or one
\* that is too short.
CredSalts == { {}, {"s1"}, {"short"} }
SaltLen(salt) == IF salt = "short" THEN 16 ELSE 32

Credentials ==
    [ salt : CredSalts, endpoint : { << "https://", "r" >>, << "r" >> } ]

\* crypto: derive_key is PBKDF2 over password, salt and iteration count;
\* the key is the sequence of its output blocks.
DeriveKey(password, salt, iterations) ==
    << << 1, password, salt, iterations >>, << 2, password, salt, iterations >> >>

\* ui/app.rs 643: hex::encode(&key[0..8])
KeyPrefix(key) == SubSeq(key, 1, 1)

\* sync_metadata.api_key: the text after the prefix is the key itself or
\* the JSON of its EncryptedData under a master key.
PlainApiKey(text) == [ prefix |-> "PLAINTEXT:", text |-> text, key |-> {} ]
SealedApiKey(text, key) == [ prefix |-> "", text |-> text, key |-> {key} ]

\* ui/app.rs 649-672: the marked API key is encrypted under the new key
EncryptMarked(api_key, key) ==
    { IF a.prefix = "PLAINTEXT:" THEN SealedApiKey(a.text, key) ELSE a :
        a \in api_key }

\* ui/app.rs 826-830: serde_json::from_str, then decrypt_text
ApiKeyOpens(api_key, key) ==
    \E a \in api_key : a.prefix = "" /\ a.key = {key}

\* db.rs 17-55: Database::open creates the file under the password, or
\* opens it when the password is the file's.
OpenResult(d, password) == IF ~d.exists \/ d.password = password THEN "Ok" ELSE "Err"

Opened(d, password) ==
    IF d.exists THEN d ELSE [NoDisk EXCEPT !.exists = TRUE, !.password = password]

\* ui/app.rs 620-629: the stored salt, or a generated one saved with 256 000
\* iterations
WithSalt(d) ==
    IF d.salt = {}
    THEN [d EXCEPT !.salt = {FreshSalt}, !.iterations = SetupIterations]
    ELSE d

SaltOf(d) == CHOOSE salt \in d.salt : TRUE

\* ui/app.rs 640-643: the lines unlock writes to the debug log
UnlockLines(d, key) ==
    { [ line |-> "Unlock - Salt (hex)", key_bytes |-> << >> ],
      [ line |-> "Unlock - Key (first 8 bytes)", key_bytes |-> KeyPrefix(key) ] }

\* repository/settings.rs 18-37: the row, or the defaults
SettingsGet(table) == IF table = {} THEN DefaultSettings ELSE CHOOSE row \in table : TRUE

Key(op, result) == [ sess EXCEPT !.op = op, !.result = result, !.last_key = instant ]

\* ui/app.rs 236-249: the characters typed into the password fields
SessType(password, confirm) ==
    /\ app.state = "Locked"
    /\ app' = [app EXCEPT !.password_input = password,
                          !.password_confirm =
                              IF app.is_new_database THEN confirm ELSE @]
    /\ sess' = Key("type", "Ok")
    /\ UNCHANGED << disk, km, debugLog, settings, instant >>

\* ui/app.rs 215-235 and 612-687: Enter on the locked screen, and unlock
SessEnter ==
    /\ app.state = "Locked"
    /\ LET password == app.password_input
           refused == /\ app.is_new_database
                      /\ (password = "" \/ password # app.password_confirm)
           salted == WithSalt(Opened(disk, password))
           key == DeriveKey(password, SaltOf(salted), salted.iterations)
           sealed == [salted EXCEPT !.api_key = EncryptMarked(@, key)]
           loads == \A k \in sealed.note_keys : k = key
       IN IF refused
          THEN /\ app' = [app EXCEPT !.error = TRUE]
               /\ sess' = Key("unlock", "Refused")
               /\ UNCHANGED << disk, km, debugLog >>
          ELSE IF OpenResult(disk, password) = "Err"
          THEN /\ app' = [app EXCEPT !.error = TRUE, !.password_input = "",
                                     !.password_confirm = ""]
               /\ sess' = Key("unlock", "Err")
               /\ UNCHANGED << disk, km, debugLog >>
          ELSE /\ disk' = sealed
               /\ km' = [km EXCEPT !.master_key = {key}, !.last_activity = instant]
               /\ debugLog' = IF app.debug_log
                              THEN debugLog \cup UnlockLines(sealed, key)
                              ELSE debugLog
               /\ IF loads
                  THEN /\ app' = [app EXCEPT !.error = FALSE, !.key = {key},
                                             !.db = {"open"},
                                             !.settings = SettingsGet(settings),
                                             !.password_input = "",
                                             !.state = "NoteList"]
                       /\ sess' = [Key("unlock", "Ok") EXCEPT !.unlocked = TRUE]
                  ELSE /\ app' = [app EXCEPT !.error = TRUE, !.key = {key},
                                             !.db = {"open"},
                                             !.password_input = "",
                                             !.password_confirm = ""]
                       /\ sess' = Key("unlock", "Err")
    /\ UNCHANGED << settings, instant >>

\* ui/app.rs 700-723: save_note seals a new note under the held key
SessSaveNote ==
    /\ app.state = "NoteList"
    /\ \E key \in app.key :
           disk' = [disk EXCEPT !.note_keys = @ \cup {key}]
    /\ sess' = Key("save_note", "Ok")
    /\ UNCHANGED << app, km, debugLog, settings, instant >>

\* ui/app.rs 308-318
SessOpenSettings ==
    /\ app.state = "NoteList"
    /\ app' = [app EXCEPT !.state = "Settings", !.error = FALSE]
    /\ sess' = Key("settings", "Ok")
    /\ UNCHANGED << disk, km, debugLog, settings, instant >>

\* ui/app.rs 511-516
SessCloseSettings ==
    /\ app.state = "Settings"
    /\ app' = [app EXCEPT !.state = "NoteList"]
    /\ sess' = Key("settings", "Ok")
    /\ UNCHANGED << disk, km, debugLog, settings, instant >>

\* ui/app.rs 1123-1129 and repository/settings.rs 40-58
SaveSettingsResult(u) == Validate(u)

\* ui/app.rs 1062-1071 and 1088: the auto-lock field of the settings screen
SessSetTimeout(minutes) ==
    /\ app.state = "Settings"
    /\ LET u == [app.settings EXCEPT !.auto_lock_timeout = minutes]
       IN IF minutes < MinAutoLock \/ minutes > MaxAutoLock
          THEN /\ app' = [app EXCEPT !.error = TRUE]
               /\ sess' = Key("set_timeout", "Err")
               /\ UNCHANGED settings
          ELSE /\ app' = [app EXCEPT !.settings = u,
                                     !.error = SaveSettingsResult(u) = "Err"]
               /\ settings' = IF SaveSettingsResult(u) = "Ok" THEN {u} ELSE settings
               /\ sess' = Key("set_timeout", SaveSettingsResult(u))
    /\ UNCHANGED << disk, km, debugLog, instant >>

\* ui/app.rs 534-541 and 1132-1215: p on the settings screen
SessPaste(creds) ==
    /\ app.state = "Settings"
    /\ app.db # {}
    /\ IF \E salt \in creds.salt : SaltLen(salt) < MinSaltLen
       THEN /\ app' = [app EXCEPT !.error = TRUE]
            /\ sess' = Key("paste", "Err")
            /\ UNCHANGED << disk, settings >>
       ELSE LET salted == IF creds.salt = {}
                          THEN disk
                          ELSE [disk EXCEPT !.salt = creds.salt,
                                            !.iterations = ImportIterations]
                u == [app.settings EXCEPT !.sync_endpoint = {creds.endpoint},
                                          !.sync_enabled = TRUE]
            IN  /\ disk' = [salted EXCEPT !.api_key = {PlainApiKey(ApiKeyText)}]
                /\ IF SaveSettingsResult(u) = "Err"
                   THEN /\ app' = [app EXCEPT !.settings = u, !.error = TRUE]
                        /\ sess' = Key("paste", "Err")
                        /\ UNCHANGED settings
                   ELSE /\ settings' = {u}
                        /\ sess' = Key("paste", "Ok")
                        /\ app' = IF creds.salt = {}
                                  THEN [app EXCEPT !.settings = u]
                                  ELSE [app EXCEPT !.settings = u, !.key = {},
                                                   !.password_input = "",
                                                   !.password_confirm = "",
                                                   !.state = "Locked"]
    /\ UNCHANGED << km, debugLog, instant >>

\* ui/app.rs 777-830: y on the note list or the settings screen, up to
\* the decryption of the API key
TriggerSync(a, d) ==
    IF ~a.settings.sync_enabled \/ a.settings.sync_endpoint = {}
    THEN "NotConfigured"
    ELSE IF a.db = {} \/ a.key = {}
    THEN "Err"
    ELSE IF \E key \in a.key : ApiKeyOpens(d.api_key, key)
    THEN "Started"
    ELSE "Err"

SessSync ==
    /\ app.state \in {"NoteList", "Settings"}
    /\ app' = [app EXCEPT !.error = TriggerSync(app, disk) = "Err"]
    /\ sess' = Key("sync", TriggerSync(app, disk))
    /\ UNCHANGED << disk, km, debugLog, settings, instant >>

\* main.rs 95-171: the process ends and is started again, with or without
\* a debug log file
SessRestart(debug) ==
    /\ app' = NewApp(~disk.exists, debug)
    /\ km' = NewKeyManager(instant)
    /\ sess' = [ op |-> "start", result |-> "Ok", unlocked |-> FALSE,
                 last_key |-> instant ]
    /\ UNCHANGED << disk, debugLog, settings, instant >>

\* main.rs 159-168: a Tick event of the main loop; time passes and no
\* handler runs
SessTick ==
    /\ instant + InstantStep <= MaxInstant
    /\ instant' = instant + InstantStep
    /\ UNCHANGED << app, disk, km, debugLog, settings, sess >>

sessUnchanged == << clock, relayVars, devVars, served, call, verHist, curHist,
                    authVars, editHist, cycleHist, attVars, kret, lapsed, scall,
                    cryptoVars >>

SessNext ==
    \/ \E password \in Passwords, confirm \in Passwords :
           SessType(password, confirm) /\ UNCHANGED sessUnchanged
    \/ SessEnter /\ UNCHANGED sessUnchanged
    \/ SessSaveNote /\ UNCHANGED sessUnchanged
    \/ SessOpenSettings /\ UNCHANGED sessUnchanged
    \/ SessCloseSettings /\ UNCHANGED sessUnchanged
    \/ \E minutes \in {0, 1, 2} : SessSetTimeout(minutes) /\ UNCHANGED sessUnchanged
    \/ \E creds \in Credentials : SessPaste(creds) /\ UNCHANGED sessUnchanged
    \/ SessSync /\ UNCHANGED sessUnchanged
    \/ \E debug \in BOOLEAN : SessRestart(debug) /\ UNCHANGED sessUnchanged

SpecSession == Init /\ [][SessNext]_vars


\* The user unlocks, may change the auto-lock timeout, and leaves the
\* keyboard; the main loop goes on polling (ui/event.rs 31-46: a Tick
\* every 250 ms when no key arrives), which is what the fairness condition
\* says.
IdleNext ==
    \/ \E password \in Passwords, confirm \in Passwords :
           SessType(password, confirm) /\ UNCHANGED sessUnchanged
    \/ SessEnter /\ UNCHANGED sessUnchanged
    \/ SessOpenSettings /\ UNCHANGED sessUnchanged
    \/ SessCloseSettings /\ UNCHANGED sessUnchanged
    \/ \E minutes \in {0, 1, 2} : SessSetTimeout(minutes) /\ UNCHANGED sessUnchanged
    \/ SessTick /\ UNCHANGED sessUnchanged

SpecIdle ==
    Init /\ [][IdleNext]_vars /\ WF_vars(SessTick /\ UNCHANGED sessUnchanged)

\* The app is unlocked and no key event arrived for longer than the
\* configured timeout.
IdleExpired ==
    /\ app.state \in {"NoteList", "Settings"}
    /\ instant - sess.last_key > DurationOfMinutes(app.settings.auto_lock_timeout)

\* C22: unlocking an existing store with a wrong password returns an
\* error, clears the password buffers and leaves the app Locked with no
\* key and no open store retained.
C22_WrongPasswordLeavesLocked ==
    [][ ( /\ SessEnter
          /\ disk.exists
          /\ ~app.is_new_database
          /\ app.password_input # disk.password )
        => ( /\ app'.error
             /\ app'.password_input = ""
             /\ app'.password_confirm = ""
             /\ app'.state = "Locked"
             /\ app'.key = {}
             /\ app'.db = {} ) ]_vars

\* C23: in every state where the app is Locked after having been unlocked,
\* App.key is None, the KeyManager holds no key and no store connection is
\* retained.
C23_LockedHoldsNothing ==
    (app.state = "Locked" /\ sess.unlocked)
        => ( /\ app.key = {}
             /\ AfterGet(km, instant).master_key = {}
             /\ app.db = {} )

\* C26: importing bootstrap credentials that carry a salt replaces the
\* store's salt with it and locks the session.
C26_ImportLocks ==
    [][ \A creds \in Credentials :
          ( /\ SessPaste(creds)
            /\ creds.salt # {}
            /\ disk'.salt = creds.salt
            /\ disk'.iterations = ImportIterations
            /\ disk' # disk )
          => ( app'.state = "Locked" /\ app'.key = {} ) ]_vars

\* C27: in every state where a master key is held, the persisted API key
\* is ciphertext under that key.
C27_ApiKeySealedWhileKeyHeld ==
    \A key \in app.key : \A a \in disk.api_key : a.prefix = "" /\ a.key = {key}

\* C28: no line of the debug log carries the master key or a part of it.
C28_KeyNeverWritten == \A entry \in debugLog : entry.key_bytes = << >>


\* C24: while the app is unlocked, if no user activity occurs for the
\* configured auto-lock timeout, the app eventually becomes Locked and
\* discards the master key.
C24_IdleLeadsToLocked ==
    IdleExpired ~> (app.state = "Locked" /\ app.key = {})

\* ---------------------------------------------------------------------
\* CryptoService (src/tui/src/crypto/service.rs)
\*
\* Byte strings are sequences over 0..255 and a text is a sequence of code
\* points below U+0800.  The two library primitives are modelled by their
\* contracts: PBKDF2-HMAC-SHA256 as a collision-free function of its three
\* arguments (DeriveKey), AES-256-GCM as a keyed pad over the plaintext
\* followed by a tag that only the same key and nonce reproduce; a forged
\* tag (probability 2^-128) does not occur.
\* ---------------------------------------------------------------------

KEY_LENGTH == 32
NONCE_LENGTH == 12
SALT_LENGTH == 32
DEFAULT_ITERATIONS == 100000

Ok(value) == [ ok |-> TRUE, value |-> value ]
Err(message) == [ ok |-> FALSE, value |-> message ]

Fill(n, b) == [ i \in 1..n |-> b ]

\* str::as_bytes: the UTF-8 encoding of the text.
RECURSIVE AsBytes(_)
AsBytes(text) ==
    IF text = << >> THEN << >>
    ELSE LET c == Head(text)
         IN  ( IF c < 128 THEN << c >>
               ELSE << 192 + (c \div 64), 128 + (c % 64) >> )
             \o AsBytes(Tail(text))

\* String::from_utf8: None for a byte string that is not UTF-8.
RECURSIVE FromUtf8(_)
FromUtf8(bytes) ==
    IF bytes = << >> THEN { << >> }
    ELSE LET b == Head(bytes)
         IN  IF b < 128
             THEN { << b >> \o rest : rest \in FromUtf8(Tail(bytes)) }
             ELSE IF /\ b >= 194
                     /\ b <= 223
                     /\ Len(bytes) >= 2
                     /\ bytes[2] >= 128
                     /\ bytes[2] <= 191
                  THEN { << (b - 192) * 64 + (bytes[2] - 128) >> \o rest :
                           rest \in FromUtf8(Tail(Tail(bytes))) }
                  ELSE {}

\* general_purpose::STANDARD.encode: three bytes become four sextets, the
\* last group is padded with '=' (written 64 here).
Pad64 == 64
RECURSIVE Base64Encode(_)
Base64Encode(bytes) ==
    IF Len(bytes) = 0 THEN << >>
    ELSE IF Len(bytes) = 1
    THEN << bytes[1] \div 4, (bytes[1] % 4) * 16, Pad64, Pad64 >>
    ELSE IF Len(bytes) = 2
    THEN << bytes[1] \div 4,
            (bytes[1] % 4) * 16 + (bytes[2] \div 16),
            (bytes[2] % 16) * 4,
            Pad64 >>
    ELSE << bytes[1] \div 4,
            (bytes[1] % 4) * 16 + (bytes[2] \div 16),
            (bytes[2] % 16) * 4 + (bytes[3] \div 64),
            bytes[3] % 64 >>
         \o Base64Encode(SubSeq(bytes, 4, Len(bytes)))

\* general_purpose::STANDARD.decode: None unless the text is whole groups
\* of four, padded only at the end and with no stray trailing bits.
RECURSIVE Base64Decode(_)
Base64Decode(text) ==
    IF Len(text) = 0 THEN { << >> }
    ELSE IF Len(text) < 4 THEN {}
    ELSE LET a == text[1]
             b == text[2]
             c == text[3]
             d == text[4]
             last == Len(text) = 4
         IN  IF a = Pad64 \/ b = Pad64 THEN {}
             ELSE IF c = Pad64
             THEN IF last /\ d = Pad64 /\ b % 16 = 0
                  THEN { << a * 4 + (b \div 16) >> }
                  ELSE {}
             ELSE IF d = Pad64
             THEN IF last /\ c % 4 = 0
                  THEN { << a * 4 + (b \div 16), (b % 16) * 16 + (c \div 4) >> }
                  ELSE {}
             ELSE { << a * 4 + (b \div 16),
                       (b % 16) * 16 + (c \div 4),
                       (c % 4) * 64 + d >> \o rest :
                      rest \in Base64Decode(SubSeq(text, 5, Len(text))) }

\* AES-GCM with a 96-bit nonce: byte i of the message is combined with byte
\* i of a pad fixed by key and nonce; the tag follows the body.
PadByte(key, nonce, i) ==
    (key[((i - 1) % KEY_LENGTH) + 1] + nonce[((i - 1) % NONCE_LENGTH) + 1] + i) % 256

RECURSIVE ByteSum(_)
ByteSum(bytes) ==
    IF bytes = << >> THEN 0 ELSE (Head(bytes) + ByteSum(Tail(bytes))) % 256

AeadTag(key, nonce, body) == key \o nonce \o << ByteSum(body) >>
TagLength == KEY_LENGTH + NONCE_LENGTH + 1

\* cipher.encrypt(nonce, plaintext)
AeadEncrypt(key, nonce, plain) ==
    LET body == [ i \in 1..Len(plain) |-> (plain[i] + PadByte(key, nonce, i)) % 256 ]
    IN  body \o AeadTag(key, nonce, body)

\* a cipher that returns the bytes whether or not the tag matches
AeadDecryptUnchecked(key, nonce, sealed) ==
    IF Len(sealed) < TagLength THEN {}
    ELSE LET n == Len(sealed) - TagLength
         IN  { [ i \in 1..n |-> (sealed[i] + 256 - PadByte(key, nonce, i)) % 256 ] }

\* cipher.decrypt(nonce, ciphertext): None unless the tag is the one this
\* key and nonce give for the body.
AeadDecrypt(key, nonce, sealed) ==
    IF Len(sealed) < TagLength THEN {}
    ELSE LET n == Len(sealed) - TagLength
             body == SubSeq(sealed, 1, n)
             tag == SubSeq(sealed, n + 1, Len(sealed))
         IN  IF tag # AeadTag(key, nonce, body) THEN {}
             ELSE { [ i \in 1..n |-> (body[i] + 256 - PadByte(key, nonce, i)) % 256 ] }

\* encrypt_binary with the nonce generate_nonce drew
encrypt_binary(data, key, nonce) ==
    Ok([ ciphertext |-> Base64Encode(AeadEncrypt(key, nonce, data)),
         nonce |-> Base64Encode(nonce),
         tag |-> << >> ])

encrypt_text(plaintext, key, nonce) == encrypt_binary(AsBytes(plaintext), key, nonce)

decrypt_binary(encrypted, key) ==
    LET ciphertext == Base64Decode(encrypted.ciphertext)
        nonce_bytes == Base64Decode(encrypted.nonce)
    IN  IF ciphertext = {} THEN Err("Invalid base64 ciphertext")
        ELSE IF nonce_bytes = {} THEN Err("Invalid base64 nonce")
        ELSE LET plaintext ==
                   UNION { UNION { AeadDecrypt(key, n, c) : n \in nonce_bytes } :
                             c \in ciphertext }
             IN  IF plaintext = {}
                 THEN Err("Decryption failed. Invalid key or corrupted data.")
                 ELSE Ok(CHOOSE p \in plaintext : TRUE)

decrypt_text(encrypted, key) ==
    LET bytes == decrypt_binary(encrypted, key)
    IN  IF ~bytes.ok THEN bytes
        ELSE IF FromUtf8(bytes.value) = {}
        THEN Err("Decrypted data is not valid UTF-8")
        ELSE Ok(CHOOSE text \in FromUtf8(bytes.value) : TRUE)

\* derive_key's substitution of the default for a low iteration count
KeepsIterations(iterations) == iterations

EffectiveIterations(iterations) ==
    IF iterations < 100000 THEN DEFAULT_ITERATIONS ELSE iterations

derive_key(password, salt, iterations) ==
    IF Len(salt) < SALT_LENGTH
    THEN Err("Salt must be at least 32 bytes")
    ELSE Ok(DeriveKey(password, salt, EffectiveIterations(iterations)))

CryptoKeys == { Fill(KEY_LENGTH, 17), Fill(KEY_LENGTH, 34) }
CryptoNonces == { Fill(NONCE_LENGTH, 0), Fill(NONCE_LENGTH, 201) }
CodePoints == { 65, 233 }
PlainTexts == { << >> } \cup { << c >> : c \in CodePoints }
                  \cup { << c, d >> : c, d \in CodePoints }
PlainBytes == { 0, 128, 255 }
PlainBlobs == { << >> } \cup { << b >> : b \in PlainBytes }
                  \cup { << b, c >> : b, c \in PlainBytes }
                  \cup { << 1, 2, 3, 4 >> }
CryptoSalts == { Fill(0, 7), Fill(SALT_LENGTH - 1, 7), Fill(SALT_LENGTH, 7),
                 Fill(SALT_LENGTH, 9), Fill(SALT_LENGTH + 1, 7) }
IterationCounts == { 0, 1, 99999, 100000, 100001, 256000 }

CryptoEncryptText ==
    \E plaintext \in PlainTexts, key \in CryptoKeys, nonce \in CryptoNonces :
        cs' = [ op |-> "encrypt_text", input |-> plaintext, key |-> key,
                sealed_with |-> key,
                result |-> encrypt_text(plaintext, key, nonce),
                before |-> NoCryptoCall.before ]

CryptoEncryptBinary ==
    \E data \in PlainBlobs, key \in CryptoKeys, nonce \in CryptoNonces :
        cs' = [ op |-> "encrypt_binary", input |-> data, key |-> key,
                sealed_with |-> key,
                result |-> encrypt_binary(data, key, nonce),
                before |-> NoCryptoCall.before ]

CryptoDecryptText ==
    /\ cs.op = "encrypt_text"
    /\ \E key \in CryptoKeys :
        cs' = [ op |-> "decrypt_text", input |-> cs.input, key |-> key,
                sealed_with |-> cs.sealed_with,
                result |-> decrypt_text(cs.result.value, key),
                before |-> NoCryptoCall.before ]

CryptoDecryptBinary ==
    /\ cs.op = "encrypt_binary"
    /\ \E key \in CryptoKeys :
        cs' = [ op |-> "decrypt_binary", input |-> cs.input, key |-> key,
                sealed_with |-> cs.sealed_with,
                result |-> decrypt_binary(cs.result.value, key),
                before |-> NoCryptoCall.before ]

CryptoDeriveKey ==
    \E password \in Passwords, salt \in CryptoSalts, iterations \in IterationCounts :
        cs' = [ op |-> "derive_key",
                input |-> << password, salt, iterations >>,
                key |-> << >>, sealed_with |-> << >>,
                result |-> derive_key(password, salt, iterations),
                before |-> IF cs.op = "derive_key"
                           THEN { [ input |-> cs.input, result |-> cs.result ] }
                           ELSE {} ]

cryptoUnchanged == << clock, relayVars, devVars, served, call, verHist, curHist,
                      authVars, editHist, cycleHist, keyVars, setVars, attVars,
                      sessVars >>

CryptoNext ==
    \/ CryptoEncryptText /\ UNCHANGED cryptoUnchanged
    \/ CryptoEncryptBinary /\ UNCHANGED cryptoUnchanged
    \/ CryptoDecryptText /\ UNCHANGED cryptoUnchanged
    \/ CryptoDecryptBinary /\ UNCHANGED cryptoUnchanged
    \/ CryptoDeriveKey /\ UNCHANGED cryptoUnchanged

SpecCrypto == Init /\ [][CryptoNext]_vars

\* C31: for every key and plaintext, text or binary, decrypting what was
\* encrypted under the same key gives the plaintext back, and decrypting
\* it under any other key fails with an error instead of returning data.
C31_RoundTripAndWrongKeyFails ==
    (cs.op \in { "decrypt_text", "decrypt_binary" })
        => IF cs.key = cs.sealed_with
           THEN cs.result.ok /\ cs.result.value = cs.input
           ELSE ~cs.result.ok

C31_Witness ==
    /\ cs.op = "decrypt_text"
    /\ cs.key = cs.sealed_with
    /\ cs.input = << 233, 65 >>
    /\ cs.result.ok
    /\ cs.result.value = << 233, 65 >>

\* C32: derive_key rejects every salt shorter than 32 bytes and accepts a
\* salt of exactly 32; for an accepted salt the key is the same on every
\* call with the same password, salt and iterations, differs for a
\* different password, and for any iterations below 100 000 is the key of
\* the default iteration count.
C32_DeriveKeyContract ==
    (cs.op = "derive_key")
        => LET password == cs.input[1]
               salt == cs.input[2]
               iterations == cs.input[3]
           IN  /\ (Len(salt) < 32) => ~cs.result.ok
               /\ (Len(salt) = 32) => cs.result.ok
               /\ \A b \in cs.before :
                    /\ (b.input = cs.input) => (b.result = cs.result)
                    /\ ( /\ b.result.ok
                         /\ cs.result.ok
                         /\ b.input[1] # password
                         /\ b.input[2] = salt
                         /\ b.input[3] = iterations )
                       => (b.result.value # cs.result.value)
               /\ cs.result.ok
                    => /\ \A other \in Passwords \ { password } :
                            derive_key(other, salt, iterations).value # cs.result.value
                       /\ (iterations < 100000)
                            => (cs.result.value
                                  = derive_key(password, salt, DEFAULT_ITERATIONS).value)

C32_Witness ==
    /\ cs.op = "derive_key"
    /\ Len(cs.input[2]) = 32
    /\ cs.input[3] = 1
    /\ cs.result.ok
    /\ \E b \in cs.before : b.input[1] # cs.input[1] /\ b.input[3] = 99999 /\ b.result.ok

\* C35: a push authenticated as one client that names a note id already
\* stored for another client leaves that client's row (content,
\* modified_at, server_version, flags) as it was.
C35_ForeignRowUntouched ==
    [][ \A p \in Callers :
          ( /\ Decides(p)
            /\ rows[req[p].cur.id] # NoRow
            /\ rows[req[p].cur.id].client_id # req[p].client )
          => (rows'[req[p].cur.id] = rows[req[p].cur.id]) ]_vars

\* C33: when two pushes of one client for the same note id are handled at
\* the same time, a write never replaces a row of that client whose
\* modified_at is greater (as the relay compares them) than its own, so
\* that the row left at the end is the accepted write with the greatest
\* modified_at.
C33_SmallerNeverOverwritesLarger ==
    [][ \A p \in Callers :
          ( /\ Decides(p)
            /\ StoredFor(p) # NoRow
            /\ \A q \in Callers : req[q].pc # "idle" => req[q].client = req[p].client )
          => ~TextLess(rows'[req[p].cur.id].modified_at,
                       StoredFor(p).modified_at) ]_vars

\* C38: a push that is answered with an error status leaves the relay's
\* notes and attachment tables exactly as they were before the request.
\* Stated for the first request the relay serves, before which every
\* table is empty: no note of that request is persisted.
C38_FailedPushLeavesTables ==
    \A p \in RawCallers :
        ( /\ areq[p].pc = "done"
          /\ areq[p].status \in { 400, 500 }
          /\ served = 1 )
        => ( /\ \A id \in NoteIds : rows[id] = NoRow
             /\ \A a \in AttIds : attMeta[a] = NoRow
             /\ attData = {} )

\* The key held in memory is the one the store's password, salt and
\* iteration count derive.
KeyMatchesStore(a, d) ==
    \A key \in a.key :
        /\ d.salt # {}
        /\ key = DeriveKey(d.password, SaltOf(d), d.iterations)

\* C39: credential import is all-or-nothing: when paste_sync_credentials
\* returns an error, the store's salt and iteration count, its sync
\* metadata and the settings are as they were, and the key held in memory
\* still matches the stored salt.
C39_FailedImportChangesNothing ==
    [][ \A creds \in Credentials :
          ( /\ SessPaste(creds)
            /\ sess'.result = "Err"
            /\ KeyMatchesStore(app, disk) )
          => ( /\ disk'.salt = disk.salt
               /\ disk'.iterations = disk.iterations
               /\ disk'.api_key = disk.api_key
               /\ settings' = settings
               /\ app'.settings = app.settings
               /\ KeyMatchesStore(app', disk') ) ]_vars

\* C37: every note row of the local store is decryptable with the master
\* key that the user's password and the store's current encryption
\* metadata derive, so that an unlock with the correct password never
\* fails while loading notes.
C37_RowsOpenUnderStoredSalt ==
    \A k \in disk.note_keys :
        /\ disk.salt # {}
        /\ k = DeriveKey(disk.password, SaltOf(disk), disk.iterations)

\* C40: every local change to a replicated field of a note (content,
\* pinned, deleted) made after a sync advances modified_at past
\* last_sync_at, so that the note is in the push set of the next cycle; in
\* particular a pin toggle made after a sync is pushed by the following
\* sync.
C40_LocalChangeIsInPushSet ==
    [][ \A d \in Devices, id \in NoteIds :
          ( /\ ops' = ops + 1
            /\ store[d][id] # NoNote
            /\ store'[d][id] # store[d][id]
            /\ meta[d].last_sync_at # NoTime
            /\ clock > ParseTime(meta[d].last_sync_at) )
          => ( id \in GetModifiedAfter(store'[d],
                                       ParseTime(meta[d].last_sync_at)) ) ]_vars

\* C36: a device that has synced before and holds a locally soft-deleted
\* note completes its cycles: the pull response is applied without error,
\* the deleted note it returns being matched to the existing local row,
\* and last_sync_at is advanced.
C36_DeletedNoteReconciles ==
    [][ \A d \in Devices :
          ( /\ Applies(d)
            /\ meta[d].last_sync_at # NoTime
            /\ \E id \in NoteIds :
                  store[d][id] # NoNote /\ store[d][id].deleted )
          => ( /\ ApplyNotes([ table |-> store[d], notes |-> loaded[d],
                               ok |-> TRUE ], req[d].out, KeyOf(d)).ok
               /\ meta'[d].last_sync_at = ToRfc3339(clock) ) ]_vars

\* A write the relay holds for d's identity, stamped before d's persisted
\* cursor, that d has no row of and that a pull with that cursor does not
\* return.
BehindCursor(d, id) ==
    /\ rows[id] # NoRow
    /\ rows[id].client_id = ClientOf(d)
    /\ store[d][id] = NoNote
    /\ meta[d].last_sync_at # NoTime
    /\ ParseTime(rows[id].server_modified_at) < ParseTime(meta[d].last_sync_at)
    /\ ~PullMatches(rows[id], ClientOf(d), TRUE,
                    OptSerde(OptParse(meta[d].last_sync_at)))

\* C34: no accepted write is lost to a syncing peer: a write the relay
\* accepted from one device is returned to the other device of the
\* identity by some later pull, so a device between cycles never holds a
\* cursor that lies at or past a row it has not received.
C34_NoWriteBehindCursor ==
    \A d \in Devices : \A id \in NoteIds :
        (cyc[d].pc = "idle") => ~BehindCursor(d, id)

====
